---- MODULE Spec2Model ----
(***************************************************************************)
(* Credential store of the Gmail MCP server: TokenManager                  *)
(* (src/src/auth/tokenManager.ts), its promise-chained write queue, the    *)
(* token file and the legacy token file, and the asynchronous callers that *)
(* read and write them.  One model step is one stretch of code between two *)
(* awaits of the single-threaded runtime.                                  *)
(***************************************************************************)
EXTENDS Naturals, Sequences, FiniteSets, TLC

(***************************************************************************)
(* Bounds of the model.                                                    *)
(***************************************************************************)
\* number of asynchronous calls (refresh events, saves, loads) in one run
MaxTasks == 3
\* number of calls in a run of the specification with every kind of call
MaxCalls == 2
\* calls of startForMcpTool, and requests to the callback servers
MaxSessions == 2
MaxCallbacks == 2
\* calls of getMailboxes, and the time that passes
MaxLookups == 2
MaxClock == 2
\* accounts passed to findAccountForMessage
MaxCandidates == 3

Tasks == 1 .. MaxTasks

(***************************************************************************)
(* JSON values.  A value is the set of its paths: the string "x" is        *)
(* {<<"x">>}, the object {k: v} is the paths of v prefixed by k, and       *)
(* undefined is the empty set.  JSON.stringify drops undefined members and *)
(* JSON.parse returns what was written, which is what this encoding does.  *)
(***************************************************************************)
Undefined == {}

Str(s) == {<<s>>}

\* obj[key]
Get(obj, key) == {Tail(p) : p \in {q \in obj : Len(q) > 1 /\ Head(q) = key}}

\* Object.keys(obj)
Keys(obj) == {Head(p) : p \in {q \in obj : Len(q) > 1}}

\* {[key]: val}
Wrap(key, val) == {<<key>> \o p : p \in val}

\* delete obj[key]
Delete(obj, key) == {p \in obj : Head(p) # key}

\* obj[key] = val
Put(obj, key, val) == Delete(obj, key) \cup Wrap(key, val)

\* {...a, ...b}
Spread(a, b) == {p \in a : Head(p) \notin Keys(b)} \cup b

\* a value in a boolean context: undefined is falsy, a non-empty string or an
\* object is truthy
Truthy(val) == val # Undefined

\* typeof val === 'object'
IsObject(val) == val # Undefined /\ \A p \in val : Len(p) > 1

\* a credential record {access_token, refresh_token?, cached_email?}; "" leaves
\* the member out
Rec(at, rt, em) ==
    (IF at = "" THEN {} ELSE Wrap("access_token", Str(at)))
    \cup (IF rt = "" THEN {} ELSE Wrap("refresh_token", Str(rt)))
    \cup (IF em = "" THEN {} ELSE Wrap("cached_email", Str(em)))

(***************************************************************************)
(* The program's fixed names and the values the environment supplies.      *)
(***************************************************************************)
\* the account id that a single-account file is converted to
DefaultAccount == "normal"

\* account ids that occur in a run
AccountIds == {"normal", "work"}

RESERVED_NAMES ==
    {".", "..", "con", "prn", "aux", "nul", "com1", "com2", "com3", "com4",
     "lpt1", "lpt2", "lpt3"}

\* the ids occurring in a run that match /^[a-z0-9_-]{1,64}$/
WellFormedIds == {"normal", "work", "access_token"}

\* validateAccountId: TRUE when it returns, FALSE when it throws
validateAccountId(id) ==
    /\ id # ""
    /\ id \notin RESERVED_NAMES
    /\ id \in WellFormedIds

\* the identifiers that a caller passes to a tool
ArgIds == {"", "normal", "work", "Work", "Work!", "con"}

\* accountId.toLowerCase(), on the identifiers of ArgIds
normalizeAccountId(accountId) ==
    CASE accountId = "Work" -> "work"
      [] accountId = "Work!" -> "work!"
      [] OTHER -> accountId

\* token values issued to the t-th call, distinct from the stored ones
AccessOf(t) == <<"a1", "a2", "a3", "a4", "a5">>[t]
RefreshOf(t) == <<"r1", "r2", "r3", "r4", "r5">>[t]

\* the token sets a refresh or a code exchange can return to call t: always an
\* access token, a refresh token or none
TokenSets(t) == {Rec(AccessOf(t), rt, "") : rt \in {"", RefreshOf(t)}}

\* the e-mail address resolved for the authorised account, or none
Emails == {"", "e1"}

\* records stored before the run
R0 == Rec("a0", "r0", "e0")

(***************************************************************************)
(* Files.  A file is absent, holds a JSON object, holds text that does not *)
(* parse, or is open for writing and holds part of the new text.           *)
(***************************************************************************)
Absent == [st |-> "absent", obj |-> {}]
Corrupt == [st |-> "corrupt", obj |-> {}]
Partial == [st |-> "partial", obj |-> {}]
Json(o) == [st |-> "json", obj |-> o]

\* fs.readFile followed by JSON.parse: the error thrown, if any, and the value
ReadJson(f) ==
    CASE f.st = "absent" -> [err |-> "ENOENT", obj |-> {}]
      [] f.st = "json" -> [err |-> "", obj |-> f.obj]
      [] OTHER -> [err |-> "SyntaxError", obj |-> {}]

\* what a read of the token file can return: its content, or a failure of the
\* file system (here: permission denied)
Reads(f) == {ReadJson(f), [err |-> "EACCES", obj |-> {}]}

\* 'code' in error: the errors of the file system carry a code, the
\* SyntaxError of JSON.parse does not
HasCode(err) == err \in {"ENOENT", "EACCES"}

\* parsed.access_token || parsed.refresh_token
LooksSingleAccount(parsed) ==
    Truthy(Get(parsed, "access_token")) \/ Truthy(Get(parsed, "refresh_token"))

\* a conversion that forgets to wrap the record under the default account
ConvertFlat(parsed) == parsed

\* loadMultiAccountTokens, lines 77-79: the mapping that a single-account
\* file is converted to
ConvertSingle(parsed) == Wrap(DefaultAccount, parsed)

(***************************************************************************)
(* State.                                                                  *)
(***************************************************************************)
VARIABLES
    file,          \* the token file at tokenPath
    legacy,        \* the file at the legacy path
    writeQueue,    \* TokenManager.writeQueue: the operation last enqueued
    ops,           \* the operations passed to enqueueTokenWrite
    accountMode,   \* TokenManager.accountMode
    oauth2Client,  \* credentials of the TokenManager's own client
    accounts,      \* TokenManager.accounts: id -> credentials of its handle
    task,          \* the asynchronous calls in progress
    enqueued,      \* history: the operations in the order they were enqueued
    applied,       \* history: the queued updates applied one after another
    file0,         \* history: the token file before the run
    tool,          \* the tool call that the server is handling
    remote,        \* history: the calls made to the mail service, <<account, call>>
    server,        \* AuthServer.server: the http.Server it holds, 0 for null
    authTimeout,   \* AuthServer.authTimeout: the timer it holds, 0 for null
    session,       \* the calls of startForMcpTool, each with its server and timer
    callback,      \* the requests that the callback servers are handling
    validating,    \* the call of validateTokens in progress
    instance,      \* MailboxRegistry.instance: 1 for the registry, 0 for null
    cache,         \* MailboxRegistry.cache of the registry
    inFlightRequests, \* MailboxRegistry.inFlightRequests of the registry
    clock,         \* Date.now()
    lookup,        \* the calls of getMailboxes
    profileCalls,  \* history: the getProfile calls made, <<fetch, account>>
    find           \* a call of findAccountForMessage

vars ==
    <<file, legacy, writeQueue, ops, accountMode, oauth2Client, accounts, task,
      enqueued, applied, file0, tool, remote, server, authTimeout, session,
      callback, validating, instance, cache, inFlightRequests, clock, lookup,
      profileCalls, find>>

\* the state of the tool handlers
toolVars == <<tool, remote>>

\* the state of the auth server and of the account mode's callers
authVars == <<server, authTimeout, session, callback, validating>>

\* the state of the mailbox registry, of its callers, and of the rest
mailboxVars == <<instance, cache, inFlightRequests>>
lookupVars == <<clock, lookup, profileCalls>>
serviceVars == <<authVars, mailboxVars, lookupVars, find>>

\* a call owns two places in the queue: its own operation, and the save that
\* loadMultiAccountTokens issues when it converts a single-account file
OpIds == Tasks \X {"op", "save"}
NoOp == <<0, "none">>

IdleOp == [st |-> "none", pred |-> NoOp]

\* an argument that the caller has left out
NotGiven == "<not given>"

\* no tool call yet: its name, its account argument (a string, an array or
\* nothing), its maxResults, the call of loadAllAccounts that precedes it, the
\* accounts it has selected, those still to be asked, the errors and the items
\* collected, the account it acts on and its result; answered and failed are
\* history: the accounts whose call succeeded and failed
IdleTool ==
    [name |-> "", pc |-> "idle", argKind |-> "none", arg |-> <<>>, maxResults |-> 0,
     task |-> 0, selected |-> {}, pending |-> {}, answered |-> {}, failed |-> {},
     errors |-> <<>>, emails |-> <<>>, target |-> "",
     res |-> [err |-> "", accountId |-> "", names |-> {}, emails |-> <<>>,
              note |-> <<>>, accounts |-> {}]]

IdleTask ==
    [kind |-> "none", pc |-> "idle", acct |-> "", tok |-> {}, email |-> "",
     snap |-> {}, buf |-> {}, del |-> FALSE, res |-> "", saw |-> "",
     orphan |-> FALSE]

Sessions == 1 .. MaxSessions
Callbacks == 1 .. MaxCallbacks

\* a call of startForMcpTool that has not been made: where the call is, by
\* which entry it came (the tool, or authenticate() of the command line), its
\* accountId, its result, and the http.Server and the timer that
\* startCallbackServer makes for it: whether the server is bound to the port,
\* and whether the timer is armed, has fired or was cleared
IdleSession ==
    [pc |-> "idle", via |-> "", accountId |-> "", res |-> "", listening |-> FALSE,
     timer |-> "none", during |-> {}, store |-> [st |-> "absent", obj |-> {}]]

\* a request that has not arrived: the server it arrives at, what its query
\* carries, where its handler is, the call of saveTokens it awaits, the tokens
\* it got for the code, and the page it has rendered
IdleCallback ==
    [pc |-> "idle", sess |-> 0, kind |-> "", task |-> 0, tok |-> {}, page |-> ""]

\* no call of validateTokens: its locals modeToValidate and currentMode, and
\* the call of loadSavedTokens it awaits
IdleValidate ==
    [pc |-> "idle", modeToValidate |-> "", currentMode |-> "", task |-> 0, res |-> ""]

Lookups == 1 .. MaxLookups

\* a call of getMailboxes that has not been made: the keys of the map it is
\* given, in the map's order, its cacheKey, the promise it returns or awaits
\* (named by the call that made it), the list it has returned, and, as
\* history, which of the three ways it took, and the
\* calls for the same set of accounts whose fetch was going on at the call,
\* and whether clearCache ran while the call's fetch was going on
IdleLookup ==
    [pc |-> "idle", ids |-> <<>>, cacheKey |-> "", promise |-> 0, res |-> <<>>,
     way |-> "", during |-> {}, cleared |-> FALSE]

\* no call of findAccountForMessage: the keys of the map it is given, in the
\* map's order, the accounts that have the message, the accounts probed so
\* far, in order, and the result (an account, or "null")
IdleFind ==
    [pc |-> "idle", candidates |-> <<>>, has |-> {}, probed |-> <<>>, res |-> ""]

Settled(o) == ops[o].st \in {"fulfilled", "rejected"}

(***************************************************************************)
(* The write queue (enqueueTokenWrite).                                    *)
(***************************************************************************)
\* the chain without the two catch handlers: the failure of p is passed on and
\* the operations behind it are rejected without being run
AdmitNoCatch(p) ==
    IF p = NoOp THEN "run"
    ELSE CASE ops[p].st = "fulfilled" -> "run"
           [] ops[p].st = "rejected" -> "skip"
           [] OTHER -> "wait"

\* What the chain does with an operation whose predecessor on the chain is p:
\* pendingWrite = writeQueue.catch(() => undefined).then(operation), where the
\* stored writeQueue has swallowed p's failure.  "wait" while p is unsettled,
\* then "run" whether p was fulfilled or rejected.
Admit(p) ==
    IF p = NoOp THEN "run"
    ELSE CASE ops[p].st = "fulfilled" -> "run"
           [] ops[p].st = "rejected" -> "run"
           [] OTHER -> "wait"

\* enqueueTokenWrite that chains the operation but does not store the new tail:
\* every operation is chained behind the same settled promise
EnqueueUnchained(o, opsNow) ==
    /\ ops' = [opsNow EXCEPT ![o] = [st |-> "queued", pred |-> writeQueue]]
    /\ writeQueue' = writeQueue
    /\ enqueued' = Append(enqueued, o)

\* enqueueTokenWrite(operation), where opsNow is ops with the caller's other
\* changes of this step: operation o is chained behind the stored writeQueue
\* and becomes the stored writeQueue
enqueueTokenWrite(o, opsNow) ==
    /\ ops' = [opsNow EXCEPT ![o] = [st |-> "queued", pred |-> writeQueue]]
    /\ writeQueue' = o
    /\ enqueued' = Append(enqueued, o)

(***************************************************************************)
(* What the queued operations compute.                                     *)
(***************************************************************************)
\* the merge without the fallback to the stored refresh token:
\* {...currentTokens, ...newTokens, refresh_token: newTokens.refresh_token},
\* and nothing of the stored record kept
MergeOverwrite(currentTokens, newTokens) == newTokens

\* {...currentTokens, ...newTokens,
\*  refresh_token: newTokens.refresh_token || currentTokens.refresh_token}
MergeTokens(currentTokens, newTokens) ==
    Put(Spread(currentTokens, newTokens), "refresh_token",
        IF Truthy(Get(newTokens, "refresh_token"))
        THEN Get(newTokens, "refresh_token")
        ELSE Get(currentTokens, "refresh_token"))

\* the 'tokens' listener of account a: multiAccountTokens[a] = updatedTokens
RefreshUpdate(multi, a, newTokens) ==
    Put(multi, a, MergeTokens(Get(multi, a), newTokens))

\* saveTokens: cachedTokens = {...tokens}, cached_email when an email is given
CachedTokens(tokens, email) ==
    IF email = "" THEN tokens ELSE Put(tokens, "cached_email", Str(email))

\* saveTokens: multiAccountTokens[this.accountMode] = cachedTokens
SaveUpdate(multi, mode, tokens, email) ==
    Put(multi, mode, CachedTokens(tokens, email))

\* a write of the records as listAccounts has them in its local copy
ListUpdateLocal(latestTokens, localUpdates) == localUpdates
\* listAccounts, lines 581-592: of the local records, only cached_email is
\* copied into the record that the file has now for the same account
ListUpdate(latestTokens, localUpdates) ==
    UNION {Wrap(a, IF Truthy(Get(Get(localUpdates, a), "cached_email"))
                   THEN Put(Get(latestTokens, a), "cached_email",
                            Get(Get(localUpdates, a), "cached_email"))
                   ELSE Get(latestTokens, a)) : a \in Keys(latestTokens)}

\* a removal that writes the mapping back whatever is left of it, and never
\* removes the file
RemoveKeepFile(multi, a) ==
    IF ~Truthy(Get(multi, a))
    THEN [err |-> "NotFound", unlink |-> FALSE, obj |-> multi]
    ELSE [err |-> "", unlink |-> FALSE, obj |-> Delete(multi, a)]

\* removeAccount, lines 402-418: throws when the mapping has no entry for the
\* account; otherwise deletes the entry and removes the file when no entry is
\* left, or writes the other entries
RemoveUpdate(multi, a) ==
    IF ~Truthy(Get(multi, a))
    THEN [err |-> "NotFound", unlink |-> FALSE, obj |-> multi]
    ELSE [err |-> "", unlink |-> Keys(Delete(multi, a)) = {},
          obj |-> Delete(multi, a)]

\* The body of a queued operation of call c (its kind, account, tokens) on the
\* mapping it loaded, with the account mode read at that moment: the error it
\* throws, or the mapping it writes, or the removal of the file.
Update(c, multi, mode) ==
    CASE c.kind = "refresh" ->
           [err |-> "", unlink |-> FALSE, obj |-> RefreshUpdate(multi, c.acct, c.tok)]
      [] c.kind = "save" ->
           [err |-> "", unlink |-> FALSE, obj |-> SaveUpdate(multi, mode, c.tok, c.email)]
      [] c.kind = "remove" -> RemoveUpdate(multi, c.acct)
      [] c.kind = "list" ->
           [err |-> "", unlink |-> FALSE, obj |-> ListUpdate(multi, c.buf)]

\* loadAllAccounts, lines 439-480: handles of accounts no longer in the file are
\* dropped; every entry with a valid id and an access token gets a handle (the
\* existing one is reused) with the stored record as its credentials
Loadable(multi, id) ==
    /\ validateAccountId(id)
    /\ IsObject(Get(multi, id))
    /\ Truthy(Get(Get(multi, id), "access_token"))

Reconcile(handles, multi) ==
    {p \in handles : Truthy(Get(multi, Head(p))) /\ ~Loadable(multi, Head(p))}
    \cup UNION {Wrap(id, Get(multi, id)) : id \in {k \in Keys(multi) : Loadable(multi, k)}}

(***************************************************************************)
(* Calls that go through the queue: the 'tokens' listener, saveTokens,     *)
(* removeAccount.                                                          *)
(***************************************************************************)
\* calls are started in the order of their numbers
CanStart(t) ==
    /\ task[t].pc = "idle"
    /\ \A u \in Tasks : u < t => task[u].pc # "idle"

Call(kind, a, tokens, email) ==
    [IdleTask EXCEPT !.kind = kind, !.pc = "queued", !.acct = a, !.tok = tokens,
                     !.email = email]

\* the handles that the tool call in progress has taken from the map of
\* accounts and makes its calls with
HeldHandles ==
    CASE tool.pc = "act" -> {tool.target}
      [] tool.pc \in {"probe", "search", "list"} -> tool.pending
      [] OTHER -> {}

\* A live handle of account a, or a handle that a tool call took from the map
\* and still uses, or the TokenManager's own client (whose listener the
\* constructor binds to the account mode of that time), emits 'tokens': the
\* listener enqueues its write.  orphan is history: the handle was no longer
\* in the map.
TokensEvent(t, a, newTokens) ==
    /\ CanStart(t)
    /\ \/ a \in Keys(accounts)
       \/ a \in HeldHandles
       \/ a = DefaultAccount /\ Truthy(Get(oauth2Client, "refresh_token"))
    /\ task' = [task EXCEPT ![t] = [Call("refresh", a, newTokens, "") EXCEPT
                    !.orphan = a \notin Keys(accounts) /\ a \in HeldHandles]]
    /\ enqueueTokenWrite(<<t, "op">>, ops)
    /\ UNCHANGED <<file, legacy, accountMode, oauth2Client, accounts, applied, file0>>
    /\ UNCHANGED <<toolVars, serviceVars>>

\* The auth callback has exchanged the code for account a: setAccountMode(a),
\* then saveTokens(tokens, email) enqueues its write.
SaveTokens(t, a, tokens, email) ==
    /\ CanStart(t)
    /\ accountMode' = a
    /\ task' = [task EXCEPT ![t] = Call("save", a, tokens, email)]
    /\ enqueueTokenWrite(<<t, "op">>, ops)
    /\ UNCHANGED <<file, legacy, oauth2Client, accounts, applied, file0>>
    /\ UNCHANGED <<toolVars, serviceVars>>

\* removeAccount(a) enqueues its write, for the id in lowercase
RemoveAccount(t, a) ==
    /\ CanStart(t)
    /\ task' = [task EXCEPT ![t] = Call("remove", normalizeAccountId(a), {}, "")]
    /\ enqueueTokenWrite(<<t, "op">>, ops)
    /\ UNCHANGED <<file, legacy, accountMode, oauth2Client, accounts, applied, file0>>
    /\ UNCHANGED <<toolVars, serviceVars>>

\* the queued operation of call t throws err: pendingWrite is rejected and the
\* caller, which awaits it, gets the error
Rejected(t, err, opsNow) ==
    /\ ops' = [opsNow EXCEPT ![<<t, "op">>].st = "rejected"]
    /\ task' = [task EXCEPT ![t].pc = "done", ![t].res = err,
                  ![t].saw = IF err = "Skipped" THEN "" ELSE file.st]

\* The chain starts the operation of call t: it loads the mapping
\* (loadMultiAccountTokens, whose read returns r) and computes what to write.  A single-account file
\* makes the load enqueue a save of the converted mapping and wait for it.
\* The operation of listAccounts loads with loadMultiAccountTokensRaw, which
\* converts nothing.
OpBegin(t, r) ==
    LET o == <<t, "op">>
        c == task[t]
        u == Update(c, r.obj, accountMode)
    IN  /\ c.pc = "queued"
        /\ ops[o].st = "queued"
        /\ Admit(ops[o].pred) # "wait"
        /\ IF Admit(ops[o].pred) = "skip"
           THEN /\ Rejected(t, "Skipped", ops)
                /\ UNCHANGED <<writeQueue, enqueued, applied, file0>>
           ELSE IF r.err \notin {"", "ENOENT"}
           THEN /\ Rejected(t, r.err, ops)
                /\ UNCHANGED <<writeQueue, enqueued, applied, file0>>
           ELSE IF LooksSingleAccount(r.obj) /\ c.kind # "list"
           THEN /\ task' = [task EXCEPT ![t].pc = "convert",
                                        ![t].snap = ConvertSingle(r.obj),
                                        ![t].saw = file.st]
                /\ enqueueTokenWrite(<<t, "save">>, [ops EXCEPT ![o].st = "running"])
                /\ UNCHANGED applied
           ELSE IF u.err # ""
           THEN /\ Rejected(t, u.err, ops)
                /\ UNCHANGED <<writeQueue, enqueued, applied, file0>>
           ELSE /\ task' = [task EXCEPT ![t].pc = "write", ![t].snap = r.obj,
                                        ![t].buf = u.obj, ![t].del = u.unlink,
                                        ![t].saw = file.st]
                /\ ops' = [ops EXCEPT ![o].st = "running"]
                /\ applied' = Update(c, applied, accountMode).obj
                /\ UNCHANGED <<writeQueue, enqueued>>
        /\ UNCHANGED <<file, legacy, accountMode, oauth2Client, accounts, file0>>
        /\ UNCHANGED <<toolVars, serviceVars>>

\* what the caller does once its operation has written: saveTokens sets the
\* credentials of the TokenManager's client, removeAccount drops the handle
AfterWrite(t) ==
    /\ oauth2Client' = IF task[t].kind = "save" THEN task[t].tok ELSE oauth2Client
    /\ accounts' = IF task[t].kind = "remove"
                   THEN Delete(accounts, task[t].acct) ELSE accounts

\* The operation opens the file for writing, which empties it (fs.writeFile),
\* or removes it when no account is left (fs.unlink).
OpOpen(t) ==
    LET o == <<t, "op">>
        c == task[t]
    IN  /\ c.pc = "write"
        /\ IF ~c.del
           THEN /\ file' = Partial
                /\ task' = [task EXCEPT ![t].pc = "writing"]
                /\ UNCHANGED <<ops, oauth2Client, accounts>>
           ELSE IF file.st = "absent"
           THEN /\ Rejected(t, "ENOENT", ops)
                /\ UNCHANGED <<file, oauth2Client, accounts>>
           ELSE /\ file' = Absent
                /\ ops' = [ops EXCEPT ![o].st = "fulfilled"]
                /\ task' = [task EXCEPT ![t].pc = "done", ![t].res = "ok"]
                /\ AfterWrite(t)
        /\ UNCHANGED <<legacy, writeQueue, accountMode, enqueued, applied, file0>>
        /\ UNCHANGED <<toolVars, serviceVars>>

\* The operation writes the text and settles; its caller continues.
OpWrite(t) ==
    LET o == <<t, "op">>
        c == task[t]
    IN  /\ c.pc = "writing"
        /\ file' = Json(c.buf)
        /\ ops' = [ops EXCEPT ![o].st = "fulfilled"]
        /\ task' = [task EXCEPT ![t].pc = "done", ![t].res = "ok"]
        /\ AfterWrite(t)
        /\ UNCHANGED <<legacy, writeQueue, accountMode, enqueued, applied, file0>>
        /\ UNCHANGED <<toolVars, serviceVars>>

(***************************************************************************)
(* Calls that read outside the queue: loadAllAccounts, loadSavedTokens.    *)
(***************************************************************************)
\* loadSavedTokens, lines 238-247, on the mapping it loaded: the outcome and
\* the credentials of the TokenManager's client
SavedTokens(multi) ==
    LET tokens == Get(multi, accountMode)
    IN  IF ~IsObject(tokens)
        THEN [res |-> "false", creds |-> oauth2Client]
        ELSE [res |-> "true", creds |-> tokens]

\* MailboxRegistry.resetInstance: the cache and the in-flight requests of the
\* registry that the class holds, if it holds one, are cleared, and the class
\* holds none
resetInstance ==
    /\ cache' = IF instance # 0 THEN {} ELSE cache
    /\ inFlightRequests' = IF instance # 0 THEN {} ELSE inFlightRequests
    /\ instance' = 0

\* a load of call t has returned multi: what its caller does with it
\* (listAccounts goes on to the accounts of the mapping; reloadAccounts, the
\* caller of loadAllAccounts, resets the mailbox registry)
Loaded(t, multi, sawSt) ==
    /\ IF task[t].kind = "loadAll" THEN resetInstance ELSE UNCHANGED mailboxVars
    /\ task' = IF task[t].kind = "list"
               THEN [task EXCEPT ![t].pc = "listing", ![t].snap = multi,
                                 ![t].saw = sawSt]
               ELSE [task EXCEPT ![t].pc = "done", ![t].snap = multi, ![t].saw = sawSt,
                       ![t].res = IF task[t].kind = "loadSaved"
                                  THEN SavedTokens(multi).res ELSE "ok"]
    /\ accounts' = IF task[t].kind = "loadAll"
                   THEN Reconcile(accounts, multi) ELSE accounts
    /\ oauth2Client' = IF task[t].kind = "loadSaved"
                       THEN SavedTokens(multi).creds ELSE oauth2Client

\* loadMultiAccountTokens of a call outside the queue, whose read returns r,
\* and what follows it.
\* loadAllAccounts rethrows a read error; loadSavedTokens catches it, removes
\* the file when the error carries a code other than ENOENT, and returns false.
Load(t, r) ==
    LET c == task[t]
    IN  IF r.err \notin {"", "ENOENT"}
        THEN /\ task' = [task EXCEPT ![t].pc = "done", ![t].saw = file.st,
                           ![t].res = IF c.kind = "loadSaved" THEN "false" ELSE r.err]
             /\ file' = IF c.kind = "loadSaved" /\ HasCode(r.err) /\ r.err # "ENOENT"
                        THEN Absent ELSE file
             /\ UNCHANGED <<ops, writeQueue, enqueued, accounts, oauth2Client>>
             /\ UNCHANGED mailboxVars
        ELSE IF LooksSingleAccount(r.obj)
        THEN /\ task' = [task EXCEPT ![t].pc = "convert", ![t].saw = file.st,
                                     ![t].snap = ConvertSingle(r.obj)]
             /\ enqueueTokenWrite(<<t, "save">>, ops)
             /\ UNCHANGED <<file, accounts, oauth2Client>>
             /\ UNCHANGED mailboxVars
        ELSE /\ Loaded(t, r.obj, file.st)
             /\ UNCHANGED <<file, ops, writeQueue, enqueued>>

\* reloadAccounts (index, lines 98-103): loadAllAccounts() is called
reloadAccounts(t) ==
    /\ CanStart(t)
    /\ task' = [task EXCEPT ![t] = [IdleTask EXCEPT !.kind = "loadAll", !.pc = "load"]]
    /\ UNCHANGED <<file, legacy, writeQueue, ops, accountMode, oauth2Client,
                   accounts, enqueued, applied, file0>>

\* loadAllAccounts() is called, at start-up or by an account operation
LoadAllAccounts(t) ==
    /\ reloadAccounts(t)
    /\ UNCHANGED <<toolVars, serviceVars>>

\* migrateLegacyTokens, lines 197-205: the mapping saved to the new location
Migrated(legacyTokens) ==
    IF LooksSingleAccount(legacyTokens)
    THEN Wrap(DefaultAccount, legacyTokens)
    ELSE legacyTokens

\* loadSavedTokens() is called: it looks for the token file and, when there is
\* none, reads the legacy file (migrateLegacyTokens); without a legacy file
\* that parses it returns false
loadSavedTokens(t) ==
    LET started == [task EXCEPT ![t] = [IdleTask EXCEPT !.kind = "loadSaved"]]
        tokenExists == file.st # "absent"
        l == ReadJson(legacy)
    IN  /\ CanStart(t)
        /\ task' = IF tokenExists
                   THEN [started EXCEPT ![t].pc = "load"]
                   ELSE IF l.err # ""
                   THEN [started EXCEPT ![t].pc = "done", ![t].res = "false"]
                   ELSE [started EXCEPT ![t].pc = "migrate",
                                        ![t].buf = Migrated(l.obj)]
        /\ UNCHANGED <<file, legacy, writeQueue, ops, oauth2Client,
                       accounts, enqueued, applied, file0>>

\* loadSavedTokens() is called, for the account mode as it is
LoadSavedTokens(t) ==
    /\ loadSavedTokens(t)
    /\ UNCHANGED accountMode
    /\ UNCHANGED <<toolVars, serviceVars>>

\* switchAccount(newMode): the account mode is set and loadSavedTokens() is
\* called
SwitchAccount(t, newMode) ==
    /\ accountMode' = newMode
    /\ loadSavedTokens(t)
    /\ UNCHANGED <<toolVars, serviceVars>>

\* the finally block of validateTokens: the account mode is set back to what
\* it was at the call, if the call had changed it
Restored ==
    IF validating.modeToValidate # validating.currentMode
    THEN validating.currentMode ELSE accountMode

\* validateTokens(m) is called (m may be left out): the account mode becomes
\* the mode to validate; without an access token on the client it calls
\* loadSavedTokens(), otherwise refreshTokensIfNeeded()
ValidateTokens(t, m) ==
    LET modeToValidate == IF m \in {NotGiven, ""} THEN accountMode ELSE m
        called == [IdleValidate EXCEPT !.modeToValidate = modeToValidate,
                                       !.currentMode = accountMode]
    IN  /\ validating.pc = "idle"
        /\ accountMode' = modeToValidate
        /\ IF ~Truthy(Get(oauth2Client, "access_token"))
           THEN /\ loadSavedTokens(t)
                /\ validating' = [called EXCEPT !.pc = "load", !.task = t]
           ELSE /\ validating' = [called EXCEPT !.pc = "refresh"]
                /\ UNCHANGED <<file, legacy, writeQueue, ops, oauth2Client,
                               accounts, task, enqueued, applied, file0>>
        /\ UNCHANGED <<server, authTimeout, session, callback>>
        /\ UNCHANGED <<toolVars, mailboxVars, lookupVars, find>>

\* loadSavedTokens() has returned to validateTokens: false, or a client
\* without access token, ends the call with false; otherwise it calls
\* refreshTokensIfNeeded()
ValidateLoaded ==
    LET loaded == /\ task[validating.task].res = "true"
                  /\ Truthy(Get(oauth2Client, "access_token"))
    IN  /\ validating.pc = "load"
        /\ task[validating.task].pc = "done"
        /\ validating' = IF loaded THEN [validating EXCEPT !.pc = "refresh"]
                         ELSE [validating EXCEPT !.pc = "done", !.res = "false"]
        /\ accountMode' = IF loaded THEN accountMode ELSE Restored
        /\ UNCHANGED <<file, legacy, writeQueue, ops, oauth2Client, accounts, task,
                       enqueued, applied, file0>>
        /\ UNCHANGED <<server, authTimeout, session, callback>>
        /\ UNCHANGED <<toolVars, mailboxVars, lookupVars, find>>

\* refreshTokensIfNeeded() has returned to validateTokens.  With an expired
\* token and a refresh token it has called refreshAccessToken: on success the
\* client has the new credentials and has emitted 'tokens', whose listener
\* (bound by the constructor) enqueues its write as call t; on failure the
\* result is false.  The account mode is set back.
ValidateRefreshed(t, isExpired, ok) ==
    LET refreshing == isExpired /\ Truthy(Get(oauth2Client, "refresh_token"))
        newTokens == Rec(AccessOf(t), "", "")
    IN  /\ validating.pc = "refresh"
        /\ IF refreshing /\ ok
           THEN /\ CanStart(t)
                /\ oauth2Client' = newTokens
                /\ task' = [task EXCEPT ![t] =
                               Call("refresh", DefaultAccount, newTokens, "")]
                /\ enqueueTokenWrite(<<t, "op">>, ops)
           ELSE /\ UNCHANGED <<oauth2Client, task, ops, writeQueue, enqueued>>
        /\ validating' = [validating EXCEPT !.pc = "done",
              !.res = IF refreshing /\ ~ok THEN "false" ELSE "true"]
        /\ accountMode' = Restored
        /\ UNCHANGED <<file, legacy, accounts, applied, file0>>
        /\ UNCHANGED <<server, authTimeout, session, callback>>
        /\ UNCHANGED <<toolVars, mailboxVars, lookupVars, find>>

\* migrateLegacyTokens opens the token file for writing, which empties it
MigrateOpen(t) ==
    /\ task[t].pc = "migrate"
    /\ file' = Partial
    /\ task' = [task EXCEPT ![t].pc = "migrating"]
    /\ UNCHANGED <<legacy, writeQueue, ops, accountMode, oauth2Client, accounts,
                   enqueued, applied, file0>>
    /\ UNCHANGED <<toolVars, serviceVars>>

\* migrateLegacyTokens writes the text; loadSavedTokens goes on to load it
MigrateWrite(t) ==
    /\ task[t].pc = "migrating"
    /\ file' = Json(task[t].buf)
    /\ task' = [task EXCEPT ![t].pc = "load"]
    /\ UNCHANGED <<legacy, writeQueue, ops, accountMode, oauth2Client, accounts,
                   enqueued, applied, file0>>
    /\ UNCHANGED <<toolVars, serviceVars>>

\* the read of a load outside the queue completes
LoadRead(t, r) ==
    /\ task[t].pc = "load"
    /\ Load(t, r)
    /\ UNCHANGED <<legacy, accountMode, applied, file0>>
    /\ UNCHANGED <<toolVars, authVars, lookupVars, find>>

(***************************************************************************)
(* listAccounts: a read outside the queue, a pass over the accounts with   *)
(* remote calls on a client of its own, and a queued write of what it      *)
(* learnt.                                                                 *)
(***************************************************************************)
\* response.credentials of client.refreshAccessToken() in call t
NewCredentials(t) == Rec(AccessOf(t), "", "")

\* the address that getUserEmail resolves
FetchedEmail == "e1"

\* listAccounts, line 541: the stored record is refreshed when it has a refresh
\* token and its access token is missing or expired
NeedsRefresh(tokens, isExpired) ==
    /\ Truthy(Get(tokens, "refresh_token"))
    /\ ~Truthy(Get(tokens, "access_token")) \/ isExpired

\* listAccounts, lines 533-564, for one entry of the mapping it loaded: the
\* local record after the refresh (Object.assign) and the look-up of the
\* address, given whether each remote call succeeds
ScanAccount(tokens, t, isExpired, refreshOk, emailOk) ==
    LET hasClient == Truthy(Get(tokens, "access_token"))
                     \/ Truthy(Get(tokens, "refresh_token"))
        refreshed == hasClient /\ NeedsRefresh(tokens, isExpired) /\ refreshOk
        afterRefresh == IF refreshed THEN Spread(tokens, NewCredentials(t))
                        ELSE tokens
        fetched == ~Truthy(Get(tokens, "cached_email")) /\ hasClient /\ emailOk
    IN  [refreshed |-> refreshed,
         updated |-> refreshed \/ fetched,
         tokens |-> IF fetched
                    THEN Put(afterRefresh, "cached_email", Str(FetchedEmail))
                    ELSE afterRefresh]

\* listAccounts() is called
ListAccounts(t) ==
    /\ CanStart(t)
    /\ task' = [task EXCEPT ![t] = [IdleTask EXCEPT !.kind = "list", !.pc = "load"]]
    /\ UNCHANGED <<file, legacy, writeQueue, ops, accountMode, oauth2Client,
                   accounts, enqueued, applied, file0>>
    /\ UNCHANGED <<toolVars, serviceVars>>

\* listAccounts goes over the mapping it loaded (the remote calls of the pass
\* touch nothing but its local copy) and, when it has updated a record,
\* enqueues its write; otherwise it returns the list
ListScan(t, expired, refreshOk, emailOk) ==
    LET multi == task[t].snap
        scan(a) == ScanAccount(Get(multi, a), t, a \in expired, a \in refreshOk,
                               a \in emailOk)
        local == UNION {Wrap(a, scan(a).tokens) : a \in Keys(multi)}
        refreshedTokens ==
            UNION {Wrap(a, NewCredentials(t)) : a \in {k \in Keys(multi) : scan(k).refreshed}}
        tokensUpdated == \E a \in Keys(multi) : scan(a).updated
    IN  /\ task[t].pc = "listing"
        /\ IF tokensUpdated
           THEN /\ task' = [task EXCEPT ![t].pc = "queued", ![t].buf = local,
                                        ![t].tok = refreshedTokens]
                /\ enqueueTokenWrite(<<t, "op">>, ops)
           ELSE /\ task' = [task EXCEPT ![t].pc = "done", ![t].res = "ok"]
                /\ UNCHANGED <<ops, writeQueue, enqueued>>
        /\ UNCHANGED <<file, legacy, accountMode, oauth2Client, accounts, applied,
                       file0>>
        /\ UNCHANGED <<toolVars, serviceVars>>

(***************************************************************************)
(* The save that loadMultiAccountTokens enqueues for a converted file      *)
(* (saveMultiAccountTokens).                                               *)
(***************************************************************************)
\* the chain starts the save: it opens the file for writing
SaveOpen(t) ==
    LET o == <<t, "save">>
    IN  /\ task[t].pc = "convert"
        /\ ops[o].st = "queued"
        /\ Admit(ops[o].pred) # "wait"
        /\ IF Admit(ops[o].pred) = "skip"
           THEN /\ ops' = [ops EXCEPT ![o].st = "rejected"]
                /\ task' = [task EXCEPT ![t].pc = "done", ![t].res = "Skipped"]
                /\ UNCHANGED file
           ELSE /\ ops' = [ops EXCEPT ![o].st = "running"]
                /\ file' = Partial
                /\ UNCHANGED task
        /\ UNCHANGED <<legacy, writeQueue, accountMode, oauth2Client, accounts,
                       enqueued, applied, file0>>
        /\ UNCHANGED <<toolVars, serviceVars>>

\* the save writes the converted mapping and settles; the load returns the
\* mapping to its caller: a reader outside the queue, or the queued operation
\* that called the load
SaveWrite(t) ==
    LET o == <<t, "save">>
        c == task[t]
        u == Update(c, c.snap, accountMode)
        done == [ops EXCEPT ![o].st = "fulfilled"]
    IN  /\ c.pc = "convert"
        /\ ops[o].st = "running"
        /\ file' = Json(c.snap)
        /\ IF c.kind \in {"loadAll", "loadSaved"}
           THEN /\ Loaded(t, c.snap, c.saw)
                /\ ops' = done
                /\ UNCHANGED applied
           ELSE IF u.err # ""
           THEN /\ Rejected(t, u.err, done)
                /\ UNCHANGED <<accounts, oauth2Client, applied>>
                /\ UNCHANGED mailboxVars
           ELSE /\ task' = [task EXCEPT ![t].pc = "write", ![t].buf = u.obj,
                                        ![t].del = u.unlink]
                /\ ops' = done
                /\ applied' = Update(c, applied, accountMode).obj
                /\ UNCHANGED <<accounts, oauth2Client>>
                /\ UNCHANGED mailboxVars
        /\ UNCHANGED <<legacy, writeQueue, accountMode, enqueued, file0>>
        /\ UNCHANGED <<toolVars, authVars, lookupVars, find>>

(***************************************************************************)
(* Account resolution of the tool handlers (BaseToolHandler).              *)
(***************************************************************************)
\* if (accountId): undefined and the empty string are falsy
Given(accountId) == accountId \notin {NotGiven, ""}

NoResult ==
    [err |-> "", accountId |-> "", names |-> {}, emails |-> <<>>, note |-> <<>>,
     accounts |-> {}]

\* McpError thrown by the resolution, with the accounts that its message names
Throw(err, names) == [NoResult EXCEPT !.err = err, !.names = names]

\* getClientForAccount that, without an identifier, takes some account instead
\* of asking which (as getClientForAccountOrFirst does)
getClientForAccountOrFirst(accountId, handles) ==
    IF handles = {} THEN Throw("NoAccounts", {})
    ELSE IF Given(accountId)
    THEN IF ~validateAccountId(normalizeAccountId(accountId))
         THEN Throw("InvalidId", {})
         ELSE IF normalizeAccountId(accountId) \notin handles
         THEN Throw("NotFound", handles)
         ELSE [NoResult EXCEPT !.accountId = normalizeAccountId(accountId)]
    ELSE [NoResult EXCEPT !.accountId = CHOOSE a \in handles : TRUE]

\* getClientForAccount(accountId, accounts), lines 72-121, where handles is
\* the set of keys of accounts: the account whose client it returns, or the
\* error it throws
getClientForAccount(accountId, handles) ==
    IF handles = {} THEN Throw("NoAccounts", {})
    ELSE IF Given(accountId)
    THEN IF ~validateAccountId(normalizeAccountId(accountId))
         THEN Throw("InvalidId", {})
         ELSE IF normalizeAccountId(accountId) \notin handles
         THEN Throw("NotFound", handles)
         ELSE [NoResult EXCEPT !.accountId = normalizeAccountId(accountId)]
    ELSE IF Cardinality(handles) = 1
    THEN [NoResult EXCEPT !.accountId = CHOOSE a \in handles : TRUE]
    ELSE Throw("Ambiguous", handles)

\* normalizeAccountIds(accountIds): nothing, or a falsy string, gives no ids; a
\* string gives one id; an array gives its elements
normalizeAccountIds(argKind, arg) ==
    IF argKind = "none" \/ (argKind = "string" /\ ~Given(arg[1])) THEN <<>> ELSE arg

\* getClientsForAccounts(accountIds, accounts), lines 126-170: the accounts
\* selected, or the error thrown at the first id that is invalid or unknown
getClientsForAccounts(argKind, arg, handles) ==
    LET ids == normalizeAccountIds(argKind, arg)
        bad == {i \in 1 .. Len(ids) :
                   \/ ~validateAccountId(normalizeAccountId(ids[i]))
                   \/ normalizeAccountId(ids[i]) \notin handles}
        first == CHOOSE i \in bad : \A j \in bad : i <= j
    IN  IF handles = {} THEN Throw("NoAccounts", {})
        ELSE IF Len(ids) = 0 THEN [NoResult EXCEPT !.accounts = handles]
        ELSE IF bad # {}
        THEN IF ~validateAccountId(normalizeAccountId(ids[first]))
             THEN Throw("InvalidId", {})
             ELSE Throw("NotFound", handles)
        ELSE [NoResult EXCEPT !.accounts =
                 {normalizeAccountId(ids[i]) : i \in 1 .. Len(ids)}]

(***************************************************************************)
(* The tool calls (index CallTool handler and the handlers' runTool).      *)
(***************************************************************************)
\* tools that act on one message of one account
MessageTools == {"delete_email", "modify_email", "download_attachment"}
\* a tool that resolves its account with getClientForAccount and acts
AccountTools == {"create_label"}
\* tools that list over the selected accounts
ListingTools == {"list_email_labels", "list_filters"}

\* what the mail service holds: the messages found by the query in each
\* account, and the one label or filter of each account
MailOf(a) ==
    IF a = "normal"
    THEN <<[id |-> "m1", accountId |-> a, date |-> 3],
           [id |-> "m2", accountId |-> a, date |-> 1]>>
    ELSE <<[id |-> "m3", accountId |-> a, date |-> 2]>>

ItemsOf(a) == <<[id |-> "i1", accountId |-> a, date |-> 0]>>

\* seq.slice(0, n)
Slice(seq, n) == SubSeq(seq, 1, IF Len(seq) < n THEN Len(seq) ELSE n)

\* searchInAccount: messages.list with maxResults: args.maxResults || 10
SearchInAccount(a, maxResults) ==
    Slice(MailOf(a), IF maxResults # 0 THEN maxResults ELSE 10)

\* allEmails.sort((a, b) => dateB - dateA): newest first, and stable
InsertByDate(e, sorted) ==
    LET before == {i \in 1 .. Len(sorted) : sorted[i].date >= e.date}
        n == Cardinality(before)
    IN  SubSeq(sorted, 1, n) \o <<e>> \o SubSeq(sorted, n + 1, Len(sorted))

RECURSIVE SortByDate(_)
SortByDate(seq) ==
    IF seq = <<>> THEN <<>>
    ELSE InsertByDate(seq[Len(seq)], SortByDate(SubSeq(seq, 1, Len(seq) - 1)))

\* the tool call has returned result r, or an error result
Return(r) == [tool EXCEPT !.pc = "done", !.res = r]

\* A CallTool request arrives: the handler first reloads the accounts.
CallTool(t, name, argKind, arg, maxResults) ==
    /\ tool.pc = "idle"
    /\ reloadAccounts(t)
    /\ tool' = [IdleTool EXCEPT !.name = name, !.pc = "reload", !.argKind = argKind,
                                !.arg = arg, !.maxResults = maxResults, !.task = t]
    /\ UNCHANGED remote
    /\ UNCHANGED serviceVars

\* The reload has returned: runTool resolves the accounts of the call.  A
\* failure of the reload, which is outside the handler's try, fails the request.
RunTool ==
    LET handles == Keys(accounts)
        account == IF tool.argKind = "none" THEN NotGiven ELSE tool.arg[1]
        one == getClientForAccount(account, handles)
        many == getClientsForAccounts(tool.argKind, tool.arg, handles)
        sole == CHOOSE a \in many.accounts : TRUE
    IN  /\ tool.pc = "reload"
        /\ task[tool.task].pc = "done"
        /\ tool' =
             IF task[tool.task].res # "ok" THEN Return(Throw("ReloadFailed", {}))
             ELSE IF tool.name \in AccountTools
                     \/ (tool.name \in MessageTools /\ Given(account))
             THEN IF one.err # "" THEN Return(one)
                  ELSE [tool EXCEPT !.pc = "act", !.target = one.accountId]
             ELSE IF tool.name \in MessageTools
             THEN \* findAccountForMessage
                  IF Cardinality(handles) = 1
                  THEN [tool EXCEPT !.pc = "act", !.target = CHOOSE a \in handles : TRUE]
                  ELSE IF handles = {} THEN Return(getClientForAccount(NotGiven, handles))
                  ELSE [tool EXCEPT !.pc = "probe", !.pending = handles]
             ELSE IF many.err # "" THEN Return(many)
             ELSE IF tool.name \in ListingTools /\ Cardinality(many.accounts) = 1
             THEN [tool EXCEPT !.pc = "act", !.target = sole, !.selected = many.accounts]
             ELSE [tool EXCEPT !.pc = IF tool.name \in ListingTools THEN "list"
                                      ELSE "search",
                               !.selected = many.accounts, !.pending = many.accounts]
        /\ UNCHANGED <<file, legacy, writeQueue, ops, accountMode, oauth2Client,
                       accounts, task, enqueued, applied, file0, remote>>
        /\ UNCHANGED serviceVars

\* findAccountForMessage asks the next account for the message (messages.get):
\* the account that has it is the one the tool acts on; when none has it, the
\* handler falls back to getClientForAccount(undefined, accounts)
Probe(a, found) ==
    /\ tool.pc = "probe"
    /\ a \in tool.pending
    /\ remote' = remote \cup {<<a, "messages.get">>}
    /\ tool' = IF found THEN [tool EXCEPT !.pc = "act", !.target = a, !.pending = {}]
               ELSE IF tool.pending = {a}
               THEN LET r == getClientForAccount(NotGiven, Keys(accounts))
                    IN  IF r.err # "" THEN Return(r)
                        ELSE [tool EXCEPT !.pc = "act", !.target = r.accountId,
                                          !.pending = {}]
               ELSE [tool EXCEPT !.pending = tool.pending \ {a}]
    /\ UNCHANGED <<file, legacy, writeQueue, ops, accountMode, oauth2Client,
                   accounts, task, enqueued, applied, file0>>
    /\ UNCHANGED serviceVars

\* the tool makes its call on the account it has resolved; an error of the
\* service is thrown to the caller (handleGoogleApiError)
Act(ok) ==
    /\ tool.pc = "act"
    /\ remote' = remote \cup {<<tool.target, tool.name>>}
    /\ tool' = IF ok
               THEN Return([NoResult EXCEPT !.accountId = tool.target,
                              !.emails = IF tool.name \in ListingTools
                                         THEN ItemsOf(tool.target) ELSE <<>>])
               ELSE Return(Throw("ApiError", {}))
    /\ UNCHANGED <<file, legacy, writeQueue, ops, accountMode, oauth2Client,
                   accounts, task, enqueued, applied, file0>>
    /\ UNCHANGED serviceVars

\* a search that gives up when one account of several fails, as it does when
\* the only account fails
SearchFailureAlways(a, selected, errors) == [throw |-> TRUE, errors |-> errors]

\* SearchEmailsHandler, lines 22-30: the failure of the only selected account
\* is thrown; the failure of one of several is put on the list of errors
SearchFailure(a, selected, errors) ==
    IF Cardinality(selected) = 1
    THEN [throw |-> TRUE, errors |-> errors]
    ELSE [throw |-> FALSE, errors |-> Append(errors, a)]

\* search_emails: the search of one selected account completes (they run
\* concurrently, Promise.all)
SearchReply(a, ok) ==
    LET f == SearchFailure(a, tool.selected, tool.errors)
    IN  /\ tool.pc = "search"
        /\ a \in tool.pending
        /\ remote' = remote \cup {<<a, "messages.list">>}
        /\ tool' =
             IF ok
             THEN [tool EXCEPT !.pending = tool.pending \ {a},
                               !.answered = tool.answered \cup {a},
                               !.emails = tool.emails \o SearchInAccount(a, tool.maxResults)]
             ELSE IF f.throw THEN Return(Throw("ApiError", {}))
             ELSE [tool EXCEPT !.pending = tool.pending \ {a},
                               !.failed = tool.failed \cup {a},
                               !.errors = f.errors]
        /\ UNCHANGED <<file, legacy, writeQueue, ops, accountMode, oauth2Client,
                       accounts, task, enqueued, applied, file0>>
        /\ UNCHANGED serviceVars

\* search_emails, lines 34-56: every search has completed; the e-mails are
\* sorted, cut to maxResults and returned with the note of the errors
SearchFinish ==
    LET sorted == SortByDate(tool.emails)
        limitedEmails == IF tool.maxResults # 0 THEN Slice(sorted, tool.maxResults)
                         ELSE sorted
    IN  /\ tool.pc = "search"
        /\ tool.pending = {}
        /\ tool' = Return([NoResult EXCEPT
                             !.emails = limitedEmails,
                             !.accounts = IF Cardinality(tool.selected) > 1
                                          THEN tool.selected ELSE {},
                             !.note = tool.errors])
        /\ UNCHANGED <<file, legacy, writeQueue, ops, accountMode, oauth2Client,
                       accounts, task, enqueued, applied, file0, remote>>
        /\ UNCHANGED serviceVars

\* list_email_labels and list_filters over several accounts, one after the
\* other: the call on the next account returns its items, or fails and the
\* handler goes on to the next account
ListReply(a, ok) ==
    /\ tool.pc = "list"
    /\ a \in tool.pending
    /\ remote' = remote \cup {<<a, tool.name>>}
    /\ tool' = IF ok
               THEN [tool EXCEPT !.pending = tool.pending \ {a},
                                 !.answered = tool.answered \cup {a},
                                 !.emails = tool.emails \o ItemsOf(a)]
               ELSE [tool EXCEPT !.pending = tool.pending \ {a},
                                 !.failed = tool.failed \cup {a}]
    /\ UNCHANGED <<file, legacy, writeQueue, ops, accountMode, oauth2Client,
                   accounts, task, enqueued, applied, file0>>
    /\ UNCHANGED serviceVars

\* the listing returns the items it has collected and the accounts selected
ListFinish ==
    /\ tool.pc = "list"
    /\ tool.pending = {}
    /\ tool' = Return([NoResult EXCEPT !.emails = tool.emails,
                                       !.accounts = tool.selected])
    /\ UNCHANGED <<file, legacy, writeQueue, ops, accountMode, oauth2Client,
                   accounts, task, enqueued, applied, file0, remote>>
    /\ UNCHANGED serviceVars

(***************************************************************************)
(* The auth server (AuthServer): startForMcpTool, the callback server it   *)
(* starts, the timeout and cleanup.                                        *)
(***************************************************************************)
\* isRunning(), and the test `if (this.server)` of startForMcpTool
isRunning == server # 0

\* cleanup() on the servers and timers sess: the timer that authTimeout holds
\* is cleared, and the http.Server that server holds is closed
Cleaned(sess) ==
    LET cleared == IF authTimeout # 0 /\ sess[authTimeout].timer = "armed"
                   THEN [sess EXCEPT ![authTimeout].timer = "cleared"]
                   ELSE sess
    IN  IF server # 0 THEN [cleared EXCEPT ![server].listening = FALSE] ELSE cleared

\* cleanup(): both fields are null afterwards
cleanup(sess) ==
    /\ session' = Cleaned(sess)
    /\ authTimeout' = 0
    /\ server' = 0

\* the fields of the token manager and of the rest that the auth server's own
\* steps leave alone
tokenVars ==
    <<file, legacy, writeQueue, ops, accountMode, oauth2Client, accounts, task,
      enqueued, applied, file0>>

\* startForMcpTool(a) is called, by the account tool or by authenticate() of
\* the command line (which makes this one call): it returns at once when the
\* server is running, and loads the credentials otherwise
StartForMcpTool(s, via, a) ==
    LET called == [IdleSession EXCEPT !.via = via, !.accountId = a, !.store = file,
                      !.during = {u \in Sessions : \/ session[u].pc = "credentials"
                                                   \/ session[u].listening}]
    IN
    /\ session[s].pc = "idle"
    /\ \A u \in Sessions : u < s => session[u].pc # "idle"
    /\ \A u \in Sessions : session[u].via # "cli"
    /\ via = "cli" => s = 1
    /\ session' = [session EXCEPT ![s] =
          IF isRunning
          THEN [called EXCEPT !.pc = "returned", !.res = "AlreadyRunning"]
          ELSE [called EXCEPT !.pc = "credentials"]]
    /\ UNCHANGED <<server, authTimeout, callback, validating>>
    /\ UNCHANGED <<tokenVars, toolVars, mailboxVars, lookupVars, find>>

\* loadCredentials() has returned.  On failure the call returns the error.
\* Otherwise startCallbackServer makes an http.Server, stores it in server,
\* calls listen, arms a timer and stores it in authTimeout; the port is bound
\* unless it is in use (free: by no other process), and the call returns with
\* the URL or with the error of listen.  authenticate() throws on an error
\* and otherwise polls until server is null.
CredentialsLoaded(s, ok, free) ==
    LET bound == free /\ \A u \in Sessions : ~session[u].listening
    IN  /\ session[s].pc = "credentials"
        /\ IF ~ok
           THEN /\ session' = [session EXCEPT ![s].pc = "returned",
                                              ![s].res = "CredentialsError"]
                /\ UNCHANGED <<server, authTimeout>>
           ELSE /\ server' = s
                /\ authTimeout' = s
                /\ session' = [session EXCEPT
                      ![s].timer = "armed",
                      ![s].listening = bound,
                      ![s].res = IF bound THEN "ok" ELSE "EADDRINUSE",
                      ![s].pc = IF bound /\ session[s].via = "cli"
                                THEN "polling" ELSE "returned"]
        /\ UNCHANGED <<callback, validating>>
        /\ UNCHANGED <<tokenVars, toolVars, mailboxVars, lookupVars, find>>

\* authenticate() finds server null and returns
Poll(s) ==
    /\ session[s].pc = "polling"
    /\ server = 0
    /\ session' = [session EXCEPT ![s].pc = "resolved"]
    /\ UNCHANGED <<server, authTimeout, callback, validating>>
    /\ UNCHANGED <<tokenVars, toolVars, mailboxVars, lookupVars, find>>

\* A request for /oauth2callback arrives at the server of session s, which is
\* bound.  With an error parameter, or without a code, the handler renders the
\* failure page and cleans up; with a code it calls getToken.
Callback(c, s, kind) ==
    /\ callback[c].pc = "idle"
    /\ \A d \in Callbacks : d < c => callback[d].pc # "idle"
    /\ session[s].listening
    /\ IF kind \in {"error", "nocode"}
       THEN /\ callback' = [callback EXCEPT ![c] =
                  [IdleCallback EXCEPT !.pc = "done", !.sess = s, !.kind = kind,
                                       !.page = "failed"]]
            /\ cleanup(session)
       ELSE /\ callback' = [callback EXCEPT ![c] =
                  [IdleCallback EXCEPT !.pc = "exchange", !.sess = s, !.kind = kind]]
            /\ UNCHANGED <<server, authTimeout, session>>
    /\ UNCHANGED validating
    /\ UNCHANGED <<tokenVars, toolVars, mailboxVars, lookupVars, find>>

\* what getToken returns for the code of request c: the URL asks for offline
\* access and forces consent, so a refresh token comes with the access token
GrantedTokens(c) == Rec(AccessOf(c), RefreshOf(c), "")

\* getToken(code) has returned.  With tokens the handler sets the account mode
\* to the session's account and calls getTokenInfo; on failure it renders the
\* failure page and cleans up.
Exchanged(c, ok, tokens) ==
    /\ callback[c].pc = "exchange"
    /\ IF ok
       THEN /\ accountMode' = session[callback[c].sess].accountId
            /\ callback' = [callback EXCEPT ![c].pc = "email", ![c].tok = tokens]
            /\ UNCHANGED <<server, authTimeout, session>>
       ELSE /\ callback' = [callback EXCEPT ![c].pc = "done", ![c].page = "failed"]
            /\ cleanup(session)
            /\ UNCHANGED accountMode
    /\ UNCHANGED validating
    /\ UNCHANGED <<file, legacy, writeQueue, ops, oauth2Client, accounts, task,
                   enqueued, applied, file0>>
    /\ UNCHANGED <<toolVars, mailboxVars, lookupVars, find>>

\* getTokenInfo has returned the email, or has failed (no email): the handler
\* calls saveTokens(tokens, email), which enqueues its write as call t
EmailResolved(c, t, email) ==
    /\ callback[c].pc = "email"
    /\ CanStart(t)
    /\ task' = [task EXCEPT ![t] =
          Call("save", session[callback[c].sess].accountId, callback[c].tok, email)]
    /\ enqueueTokenWrite(<<t, "op">>, ops)
    /\ callback' = [callback EXCEPT ![c].pc = "saving", ![c].task = t]
    /\ UNCHANGED <<server, authTimeout, session, validating>>
    /\ UNCHANGED <<file, legacy, accountMode, oauth2Client, accounts, applied, file0>>
    /\ UNCHANGED <<toolVars, mailboxVars, lookupVars, find>>

\* saveTokens has returned or thrown: the handler renders the success page or
\* the failure page, and cleans up
Saved(c) ==
    /\ callback[c].pc = "saving"
    /\ task[callback[c].task].pc = "done"
    /\ callback' = [callback EXCEPT ![c].pc = "done",
          ![c].page = IF task[callback[c].task].res = "ok" THEN "success"
                      ELSE "failed"]
    /\ cleanup(session)
    /\ UNCHANGED validating
    /\ UNCHANGED <<tokenVars, toolVars, mailboxVars, lookupVars, find>>

\* the timer of session s fires, five minutes after it was armed: cleanup()
Timeout(s) ==
    /\ session[s].timer = "armed"
    /\ cleanup([session EXCEPT ![s].timer = "fired"])
    /\ UNCHANGED <<callback, validating>>
    /\ UNCHANGED <<tokenVars, toolVars, mailboxVars, lookupVars, find>>

(***************************************************************************)
(* What the caller of a finished call gets.                                *)
(***************************************************************************)
\* The pathway of call c has awaited its queued write, which gave c.res: the
\* 'tokens' listener catches the error and logs it (lines 165-173), listAccounts
\* catches it and returns an empty list (603-605), saveTokens logs and
\* rethrows (351-354), removeAccount has no catch
Outcome(c) ==
    CASE c.kind \in {"refresh", "list"} -> "returned"
      [] c.kind \in {"save", "remove"} ->
           IF c.res = "ok" THEN "returned" ELSE "threw"
      [] c.kind = "loadAll" -> IF c.res = "ok" THEN "returned" ELSE "threw"
      [] OTHER -> "returned"

(***************************************************************************)
(* Initial states and specifications.                                      *)
(***************************************************************************)
\* a second stored record
R1 == Rec("b0", "s0", "")

OneAccount == Wrap("normal", R0)
TwoAccounts == Wrap("normal", R0) \cup Wrap("work", R1)

\* the mapping a file stands for
MappingOf(f) ==
    IF f.st # "json" THEN {}
    ELSE IF LooksSingleAccount(f.obj) THEN Wrap(DefaultAccount, f.obj)
    ELSE f.obj

\* the state after construction (no handle yet), or after the start-up's
\* loadAllAccounts over a multi-account file
InitWith(files, legacies) ==
    /\ file \in files
    /\ legacy \in legacies
    /\ writeQueue = NoOp
    /\ ops = [o \in OpIds |-> IdleOp]
    /\ accountMode = DefaultAccount
    /\ oauth2Client = {}
    /\ accounts \in {{}} \cup
          (IF file.st = "json" /\ ~LooksSingleAccount(file.obj)
           THEN {Reconcile({}, file.obj)} ELSE {})
    /\ task = [t \in Tasks |-> IdleTask]
    /\ enqueued = <<>>
    /\ applied = MappingOf(file)
    /\ file0 = file
    /\ tool = IdleTool
    /\ remote = {}
    /\ server = 0
    /\ authTimeout = 0
    /\ session = [s \in Sessions |-> IdleSession]
    /\ callback = [c \in Callbacks |-> IdleCallback]
    /\ validating = IdleValidate
    /\ instance = IF accounts = {} THEN 1 ELSE 0
    /\ cache = {}
    /\ inFlightRequests = {}
    /\ clock = 0
    /\ lookup = [l \in Lookups |-> IdleLookup]
    /\ profileCalls = <<>>
    /\ find = IdleFind

Init ==
    InitWith({Absent, Corrupt, Json(R0), Json(OneAccount), Json(TwoAccounts)},
             {Absent, Json(R0), Json(TwoAccounts)})

\* the steps of call t that follow its start; the reads may fail
Steps(t) ==
    \/ \E r \in Reads(file) : OpBegin(t, r)
    \/ OpOpen(t)
    \/ OpWrite(t)
    \/ \E r \in Reads(file) : LoadRead(t, r)
    \/ SaveOpen(t)
    \/ SaveWrite(t)

\* every kind of call, any token file and legacy file
Next ==
    \E t \in 1 .. MaxCalls :
        \/ \E a \in AccountIds, tokens \in TokenSets(t) : TokensEvent(t, a, tokens)
        \/ \E a \in AccountIds, tokens \in TokenSets(t), email \in Emails :
              SaveTokens(t, a, tokens, email)
        \/ \E a \in AccountIds : RemoveAccount(t, a)
        \/ LoadAllAccounts(t)
        \/ LoadSavedTokens(t)
        \/ MigrateOpen(t)
        \/ MigrateWrite(t)
        \/ Steps(t)

Spec == Init /\ [][Next]_vars

\* only calls that go through the queue, on any token file
InitQueue ==
    InitWith({Absent, Corrupt, Json(R0), Json(OneAccount), Json(TwoAccounts)},
             {Absent})

NextQueue ==
    \E t \in Tasks :
        \/ \E a \in AccountIds, tokens \in TokenSets(t) : TokensEvent(t, a, tokens)
        \/ \E a \in AccountIds, tokens \in TokenSets(t) : SaveTokens(t, a, tokens, "")
        \/ \E a \in AccountIds : RemoveAccount(t, a)
        \/ \E r \in Reads(file) : OpBegin(t, r)
        \/ OpOpen(t)
        \/ OpWrite(t)

SpecQueue == InitQueue /\ [][NextQueue]_vars

\* only refresh events, of the handles loaded from a multi-account file, and
\* no failure of the file system
InitRefresh ==
    /\ InitWith({Json(OneAccount), Json(TwoAccounts)}, {Absent})
    /\ accounts # {}

NextRefresh ==
    \E t \in Tasks :
        \/ \E a \in AccountIds, tokens \in TokenSets(t) : TokensEvent(t, a, tokens)
        \/ OpBegin(t, ReadJson(file))
        \/ OpOpen(t)
        \/ OpWrite(t)

SpecRefresh == InitRefresh /\ [][NextRefresh]_vars

\* only loads, of a token file in the single-account shape, and no failure of
\* the file system
InitLoad ==
    InitWith({Json(R0), Json(Rec("a0", "", "")), Json(Rec("", "r0", "e0"))}, {Absent})

NextLoad ==
    \E t \in Tasks :
        \/ LoadAllAccounts(t)
        \/ LoadSavedTokens(t)
        \/ LoadRead(t, ReadJson(file))
        \/ SaveOpen(t)
        \/ SaveWrite(t)

SpecLoad == InitLoad /\ [][NextLoad]_vars

\* what a token file can hold when the accounts are reloaded: under each id,
\* one of them reserved, no record or a record with or without an access token
StoredIds == {"normal", "work", "con"}
StoredRecords == {{}, R0, R1, Rec("", "r0", "e0")}
Stores ==
    {UNION {Wrap(id, m[id]) : id \in StoredIds} : m \in [StoredIds -> StoredRecords]}

\* a reload (index reloadAccounts, before every tool call): the handles are
\* those of an earlier loadAllAccounts, and the file is what the writers (of
\* this process or of the auth command) have left since
InitReload ==
    /\ file \in {Json(m) : m \in Stores}
    /\ legacy = Absent
    /\ writeQueue = NoOp
    /\ ops = [o \in OpIds |-> IdleOp]
    /\ accountMode = DefaultAccount
    /\ oauth2Client = {}
    /\ accounts \in {Reconcile({}, m) : m \in Stores}
    /\ task = [t \in Tasks |-> IdleTask]
    /\ enqueued = <<>>
    /\ applied = MappingOf(file)
    /\ file0 = file
    /\ tool = IdleTool
    /\ remote = {}
    /\ server = 0
    /\ authTimeout = 0
    /\ session = [s \in Sessions |-> IdleSession]
    /\ callback = [c \in Callbacks |-> IdleCallback]
    /\ validating = IdleValidate
    /\ instance = 0
    /\ cache = {}
    /\ inFlightRequests = {}
    /\ clock = 0
    /\ lookup = [l \in Lookups |-> IdleLookup]
    /\ profileCalls = <<>>
    /\ find = IdleFind

NextReload ==
    \E t \in 1 .. MaxCalls :
        \/ LoadAllAccounts(t)
        \/ LoadRead(t, ReadJson(file))

SpecReload == InitReload /\ [][NextReload]_vars

\* only listAccounts, on a file that holds one or two accounts, and no failure
\* of the file system
InitList ==
    InitWith({Json(m) : m \in {n \in Stores : "con" \notin Keys(n) /\ n # {}}},
             {Absent})

NextList ==
    \E t \in 1 .. MaxCalls :
        \/ ListAccounts(t)
        \/ LoadRead(t, ReadJson(file))
        \/ \E expired, refreshOk, emailOk \in SUBSET AccountIds :
              ListScan(t, expired, refreshOk, emailOk)
        \/ OpBegin(t, ReadJson(file))
        \/ OpOpen(t)
        \/ OpWrite(t)

SpecList == InitList /\ [][NextList]_vars

\* the same, where a step that can be taken is eventually taken: the runtime
\* runs every continuation that is ready
FairList == SpecList /\ WF_vars(NextList)

\* the account arguments of a tool call: none, a string, an array
ToolArgs ==
    {<<"none", <<>>>>}
    \cup {<<"string", <<id>>>> : id \in ArgIds}
    \cup {<<"array", ids>> : ids \in {<<"normal", "Work">>, <<"work", "normal">>,
                                       <<"normal", "Work!">>, <<"work">>}}

\* the values of maxResults: 0 when the caller gives none
Limits == {0, 1, 2}

\* one tool call, on a file that holds no, one or two accounts
InitTools ==
    /\ InitWith({Absent, Json(OneAccount), Json(TwoAccounts)}, {Absent})
    /\ accounts = {}

NextTools ==
    \/ \E t \in 1 .. MaxCalls :
          \/ \E name \in MessageTools \cup AccountTools,
                a \in {x \in ToolArgs : x[1] # "array"} :
                CallTool(t, name, a[1], a[2], 0)
          \/ \E a \in ToolArgs, n \in Limits : CallTool(t, "search_emails", a[1], a[2], n)
          \/ \E name \in ListingTools, a \in ToolArgs : CallTool(t, name, a[1], a[2], 0)
          \/ \E r \in Reads(file) : LoadRead(t, r)
    \/ RunTool
    \/ \E a \in AccountIds, found \in BOOLEAN : Probe(a, found)
    \/ \E ok \in BOOLEAN : Act(ok)
    \/ \E a \in AccountIds, ok \in BOOLEAN : SearchReply(a, ok)
    \/ SearchFinish
    \/ \E a \in AccountIds, ok \in BOOLEAN : ListReply(a, ok)
    \/ ListFinish

SpecTools == InitTools /\ [][NextTools]_vars

\* authorization sessions, by the account tool (calls may overlap) or by the
\* command line: the browser's requests to the callback server, the timeout,
\* and the writes of saveTokens, whose reads may fail or find a corrupt file
InitAuth ==
    /\ InitWith({Absent, Corrupt, Json(OneAccount)}, {Absent})
    /\ accounts = {}

\* the steps that the runtime takes by itself, once they can be taken
AuthSteps ==
    \/ \E s \in Sessions, ok, free \in BOOLEAN : CredentialsLoaded(s, ok, free)
    \/ \E s \in Sessions : Poll(s)
    \/ \E c \in Callbacks, ok \in BOOLEAN : Exchanged(c, ok, GrantedTokens(c))
    \/ \E c \in Callbacks, t \in 1 .. MaxCalls, email \in Emails :
          EmailResolved(c, t, email)
    \/ \E c \in Callbacks : Saved(c)
    \/ \E s \in Sessions : Timeout(s)
    \/ \E t \in 1 .. MaxCalls :
          \/ \E r \in Reads(file) : OpBegin(t, r)
          \/ OpOpen(t)
          \/ OpWrite(t)

NextAuth ==
    \/ \E s \in Sessions, via \in {"tool", "cli"}, a \in AccountIds :
          StartForMcpTool(s, via, a)
    \/ \E c \in Callbacks, s \in Sessions, kind \in {"error", "nocode", "code"} :
          Callback(c, s, kind)
    \/ AuthSteps

SpecAuth == InitAuth /\ [][NextAuth]_vars

\* the same, where a continuation that is ready runs and a timer that is armed
\* fires; whether a request arrives or a call is made is up to the environment
FairAuth == SpecAuth /\ WF_vars(AuthSteps)

\* one authorization session by the account tool, with one request that
\* carries a code, while the token manager's other callers switch the account
\* or validate the tokens of an account; the file holds no, one or two
\* accounts, and no read fails
InitModes ==
    /\ InitWith({Absent, Json(OneAccount), Json(TwoAccounts)}, {Absent})
    /\ accounts = {}

NextModes ==
    \/ \E a \in AccountIds : StartForMcpTool(1, "tool", a)
    \/ CredentialsLoaded(1, TRUE, TRUE)
    \/ Callback(1, 1, "code")
    \/ Exchanged(1, TRUE, GrantedTokens(1))
    \/ \E t \in Tasks : EmailResolved(1, t, "")
    \/ Saved(1)
    \/ \E t \in Tasks :
          \/ \E newMode \in AccountIds : SwitchAccount(t, newMode)
          \/ \E m \in AccountIds \cup {NotGiven} : ValidateTokens(t, m)
          \/ \E isExpired, ok \in BOOLEAN : ValidateRefreshed(t, isExpired, ok)
          \/ LoadRead(t, ReadJson(file))
          \/ OpBegin(t, ReadJson(file))
          \/ OpOpen(t)
          \/ OpWrite(t)
    \/ ValidateLoaded

SpecModes == InitModes /\ [][NextModes]_vars

\* listAccounts among refresh events, saves and removals, on a file that holds
\* one or two accounts; no read fails
InitStore == InitWith({Json(OneAccount), Json(TwoAccounts), Json(Wrap("work", R1))}, {Absent})

NextStore ==
    \E t \in 1 .. MaxCalls :
        \/ ListAccounts(t)
        \/ LoadRead(t, ReadJson(file))
        \/ \E expired, refreshOk, emailOk \in SUBSET AccountIds :
              ListScan(t, expired, refreshOk, emailOk)
        \/ \E a \in AccountIds, tokens \in TokenSets(t) : TokensEvent(t, a, tokens)
        \/ \E a \in AccountIds, tokens \in TokenSets(t), email \in Emails :
              SaveTokens(t, a, tokens, email)
        \/ \E a \in AccountIds : RemoveAccount(t, a)
        \/ OpBegin(t, ReadJson(file))
        \/ OpOpen(t)
        \/ OpWrite(t)

SpecStore == InitStore /\ [][NextStore]_vars

\* saves, removals and reloads on a token file in the single-account shape or
\* in the multi-account shape; every call of the file system returns what the
\* file holds
InitShapes == InitWith({Json(R0), Json(OneAccount)}, {Absent})

\* the steps that the runtime takes by itself, once their promise is settled
ShapeSteps ==
    \E t \in 1 .. MaxCalls :
        \/ OpBegin(t, ReadJson(file))
        \/ OpOpen(t)
        \/ OpWrite(t)
        \/ LoadRead(t, ReadJson(file))
        \/ SaveOpen(t)
        \/ SaveWrite(t)

NextShapes ==
    \/ \E t \in 1 .. MaxCalls :
          \/ \E a \in AccountIds, tokens \in TokenSets(t) : SaveTokens(t, a, tokens, "")
          \/ \E a \in AccountIds : RemoveAccount(t, a)
          \/ LoadAllAccounts(t)
    \/ ShapeSteps

SpecShapes == InitShapes /\ [][NextShapes]_vars

\* the same, where a continuation that is ready runs
FairShapes == SpecShapes /\ WF_vars(ShapeSteps)

\* authorizations of either account saved through the TokenManager, whose own
\* client takes the saved tokens and refreshes them; no account handle exists
InitBase ==
    /\ InitWith({Json(OneAccount), Json(TwoAccounts)}, {Absent})
    /\ accounts = {}

NextBase ==
    \E t \in Tasks :
        \/ \E a \in AccountIds, tokens \in TokenSets(t), email \in Emails :
              SaveTokens(t, a, tokens, email)
        \/ \E a \in AccountIds, tokens \in TokenSets(t) : TokensEvent(t, a, tokens)
        \/ OpBegin(t, ReadJson(file))
        \/ OpOpen(t)
        \/ OpWrite(t)

SpecBase == InitBase /\ [][NextBase]_vars

\* handleCLIAuth: process.argv[3] || 'normal' is handed to authenticate()
handleCLIAuth(arg) ==
    StartForMcpTool(1, "cli", IF arg = "" THEN DefaultAccount ELSE arg)

\* `auth [account]` on the command line with any argument, the flow completing
\* in the browser, and the reloads before and after it; no read fails
NextCli ==
    \/ \E arg \in ArgIds : handleCLIAuth(arg)
    \/ CredentialsLoaded(1, TRUE, TRUE)
    \/ Callback(1, 1, "code")
    \/ Exchanged(1, TRUE, GrantedTokens(1))
    \/ \E t \in Tasks, email \in Emails : EmailResolved(1, t, email)
    \/ Saved(1)
    \/ \E t \in Tasks :
          \/ LoadAllAccounts(t)
          \/ LoadRead(t, ReadJson(file))
          \/ OpBegin(t, ReadJson(file))
          \/ OpOpen(t)
          \/ OpWrite(t)

SpecCli == InitModes /\ [][NextCli]_vars

\* the same operations on multi-account files, one of which holds an account
\* that was given the name access_token
InitNames ==
    InitWith({Json(Wrap("normal", R0) \cup Wrap("access_token", R1)),
              Json(TwoAccounts)}, {Absent})

SpecNames == InitNames /\ [][NextShapes]_vars

\* a tool call on a message of a named account, while accounts are removed
\* and handles emit 'tokens'; the file holds two accounts and no read fails
InitHeld ==
    /\ InitWith({Json(TwoAccounts)}, {Absent})
    /\ accounts = {}

NextHeld ==
    \/ \E t \in Tasks :
          \/ \E name \in MessageTools, a \in AccountIds : CallTool(t, name, "string", <<a>>, 0)
          \/ LoadRead(t, ReadJson(file))
          \/ \E a \in AccountIds : TokensEvent(t, a, Rec(AccessOf(t), "", ""))
          \/ \E a \in AccountIds : RemoveAccount(t, a)
          \/ OpBegin(t, ReadJson(file))
          \/ OpOpen(t)
          \/ OpWrite(t)
    \/ RunTool
    \/ \E ok \in BOOLEAN : Act(ok)

SpecHeld == InitHeld /\ [][NextHeld]_vars

(***************************************************************************)
(* The mailbox registry (MailboxRegistry.getMailboxes).                    *)
(***************************************************************************)
\* the account ids in the order in which Array.prototype.sort() puts them
SortedIds == <<"normal", "work">>

Rank(a) == CHOOSE i \in 1 .. Len(SortedIds) : SortedIds[i] = a

\* the keys of a map, as a set
MapKeys(ids) == {ids[i] : i \in 1 .. Len(ids)}

\* the maps that getMailboxes is given: the accounts, in either order of
\* insertion, or the default account alone
AccountMaps ==
    {ids \in UNION {[1 .. n -> AccountIds] : n \in 1 .. Cardinality(AccountIds)} :
        Cardinality(MapKeys(ids)) = Len(ids) /\ DefaultAccount \in MapKeys(ids)}

InsertId(a, sorted) ==
    LET n == Cardinality({i \in 1 .. Len(sorted) : Rank(sorted[i]) <= Rank(a)})
    IN  SubSeq(sorted, 1, n) \o <<a>> \o SubSeq(sorted, n + 1, Len(sorted))

RECURSIVE SortIds(_)
SortIds(ids) ==
    IF ids = <<>> THEN <<>>
    ELSE InsertId(ids[Len(ids)], SortIds(SubSeq(ids, 1, Len(ids) - 1)))

RECURSIVE Join(_)
Join(ids) ==
    IF ids = <<>> THEN ""
    ELSE IF Len(ids) = 1 THEN ids[1]
    ELSE ids[1] \o "," \o Join(Tail(ids))

\* the key without the sort
CacheKeyInMapOrder(ids) == Join(ids)
\* Array.from(accounts.keys()).sort().join(',')
CacheKey(ids) == Join(SortIds(ids))

CACHE_TTL == 5 * 60 * 1000

\* the entry of the cache under a key, or none
Cached(key) == {e \in cache : e.key = key}

\* a cached entry that the call may return
Fresh(e) == clock - e.timestamp < CACHE_TTL

\* the request is not tracked
TrackNothing(key, l) == inFlightRequests
\* this.inFlightRequests.set(cacheKey, requestPromise)
Track(key, l) == {r \in inFlightRequests : r[1] # key} \cup {<<key, l>>}

\* what getProfile gives for an account, or the minimal info when it fails
MailboxInfo(a, ok) ==
    [accountId |-> a, email |-> IF ok THEN a \o "@gmail.com" ELSE "unknown"]

\* requests are served once initialize() has returned, that is after the first
\* reloadAccounts()
Initialized == instance = 0

\* getMailboxes(accounts) is called on the handlers' registry, up to its first
\* await: it returns the promise of a fetch in flight under its key, or the
\* data of a cached entry that is younger than CACHE_TTL, or starts
\* fetchMailboxes, which calls getProfile for every account of the map, and
\* tracks its promise
GetMailboxes(l, ids) ==
    LET cacheKey == CacheKey(ids)
        inFlight == {r \in inFlightRequests : r[1] = cacheKey}
        cached == Cached(cacheKey)
        called == [IdleLookup EXCEPT !.ids = ids, !.cacheKey = cacheKey,
                     !.during = {k \in Lookups : /\ lookup[k].pc = "fetching"
                                                 /\ MapKeys(lookup[k].ids) = MapKeys(ids)}]
    IN  /\ Initialized
        /\ lookup[l].pc = "idle"
        /\ \A k \in 1 .. l - 1 : lookup[k].pc # "idle"
        /\ IF inFlight # {}
           THEN /\ lookup' = [lookup EXCEPT ![l] =
                     [called EXCEPT !.pc = "awaiting", !.way = "inflight",
                                    !.promise = (CHOOSE r \in inFlight : TRUE)[2]]]
                /\ UNCHANGED <<inFlightRequests, profileCalls>>
           ELSE IF \E e \in cached : Fresh(e)
           THEN /\ lookup' = [lookup EXCEPT ![l] =
                     [called EXCEPT !.pc = "returned", !.way = "cache",
                                    !.res = (CHOOSE e \in cached : TRUE).data]]
                /\ UNCHANGED <<inFlightRequests, profileCalls>>
           ELSE /\ lookup' = [lookup EXCEPT ![l] =
                     [called EXCEPT !.pc = "fetching", !.way = "fetch", !.promise = l]]
                /\ inFlightRequests' = Track(cacheKey, l)
                /\ profileCalls' = profileCalls \o [i \in 1 .. Len(ids) |-> <<l, ids[i]>>]
        /\ UNCHANGED <<instance, cache, clock, find>>
        /\ UNCHANGED <<tokenVars, toolVars, authVars>>

\* the getProfile calls of the fetch of call l have settled, each with a
\* profile or an error: fetchMailboxes stores the list under the key with the
\* time and returns it, the call and the calls that were given its promise
\* return the list, and the call's finally deletes the key from the requests
\* in flight
Fetched(l, ok) ==
    LET ids == lookup[l].ids
        mailboxes == [i \in 1 .. Len(ids) |-> MailboxInfo(ids[i], ok[ids[i]])]
        entry == [key |-> lookup[l].cacheKey, data |-> mailboxes, timestamp |-> clock]
    IN  /\ lookup[l].pc = "fetching"
        /\ cache' = (cache \ Cached(lookup[l].cacheKey)) \cup {entry}
        /\ lookup' = [k \in Lookups |->
                        IF k = l \/ (lookup[k].pc = "awaiting" /\ lookup[k].promise = l)
                        THEN [lookup[k] EXCEPT !.pc = "returned", !.res = mailboxes]
                        ELSE lookup[k]]
        /\ inFlightRequests' = {r \in inFlightRequests : r[1] # lookup[l].cacheKey}
        /\ UNCHANGED <<instance, clock, profileCalls, find>>
        /\ UNCHANGED <<tokenVars, toolVars, authVars>>

\* clearCache() is called on the handlers' registry: both maps are emptied;
\* the fetches that are going on are not cancelled
ClearCache ==
    /\ Initialized
    /\ cache' = {}
    /\ inFlightRequests' = {}
    /\ lookup' = [k \in Lookups |->
                    IF lookup[k].pc = "fetching"
                    THEN [lookup[k] EXCEPT !.cleared = TRUE]
                    ELSE lookup[k]]
    /\ UNCHANGED <<instance, clock, profileCalls, find>>
    /\ UNCHANGED <<tokenVars, toolVars, authVars>>

\* time passes: Date.now() is half of CACHE_TTL later
Tick ==
    /\ clock < MaxClock * (CACHE_TTL \div 2)
    /\ clock' = clock + CACHE_TTL \div 2
    /\ UNCHANGED <<lookup, profileCalls, mailboxVars, find>>
    /\ UNCHANGED <<tokenVars, toolVars, authVars>>

\* the server starts (initialize) on a file with two accounts; calls of
\* getMailboxes for the accounts or one of them, and reloads of the accounts
\* by later requests, while time passes; no read fails
InitRegistry == InitWith({Json(TwoAccounts)}, {Absent})

NextRegistry ==
    \/ \E l \in Lookups :
          \/ \E ids \in AccountMaps : GetMailboxes(l, ids)
          \/ \E ok \in [MapKeys(lookup[l].ids) -> BOOLEAN] : Fetched(l, ok)
    \/ Tick
    \/ \E t \in 1 .. MaxCalls :
          \/ LoadAllAccounts(t)
          \/ LoadRead(t, ReadJson(file))

SpecRegistry == InitRegistry /\ [][NextRegistry]_vars

\* the same with calls of clearCache between the calls of getMailboxes and
\* the completions of their fetches
NextClear == NextRegistry \/ ClearCache

SpecClear == InitRegistry /\ [][NextClear]_vars

(***************************************************************************)
(* MailboxRegistry.findAccountForMessage.                                  *)
(***************************************************************************)
\* names of accounts, of which the first MaxCandidates are used
AccountNames == <<"normal", "work", "home", "team", "extra">>

CandidateIds == {AccountNames[i] : i \in 1 .. MaxCandidates}

\* the maps that findAccountForMessage is given: their keys, in the order of
\* the map
CandidateMaps ==
    {ids \in UNION {[1 .. n -> CandidateIds] : n \in 0 .. MaxCandidates} :
        Cardinality({ids[i] : i \in 1 .. Len(ids)}) = Len(ids)}

\* the account that is probed first is the last of the map
LastCandidateFirst(f) == f.candidates[Len(f.candidates) - Len(f.probed)]
\* for (const [accountId, client] of accounts): the account to probe next
NextCandidate(f) == f.candidates[Len(f.probed) + 1]

\* findAccountForMessage(messageId, accounts) is called, where the accounts of
\* has are those whose messages.get for messageId succeeds: a map of one
\* account gives that account, a map of no account gives null, and with
\* several accounts the first is probed
FindAccountForMessage(ids, has) ==
    /\ find.pc = "idle"
    /\ find' = [IdleFind EXCEPT
                  !.candidates = ids,
                  !.has = has,
                  !.pc = IF Len(ids) >= 2 THEN "probing" ELSE "returned",
                  !.res = IF Len(ids) = 1 THEN ids[1]
                          ELSE IF Len(ids) = 0 THEN "null" ELSE ""]
    /\ UNCHANGED <<tokenVars, toolVars, authVars, mailboxVars, lookupVars>>

\* the messages.get of the account probed has settled: the account is returned
\* if the message was found; otherwise the next account is probed, or null is
\* returned after the last
FindProbe ==
    LET a == NextCandidate(find)
        probed == Append(find.probed, a)
    IN  /\ find.pc = "probing"
        /\ find' = IF a \in find.has
                   THEN [find EXCEPT !.probed = probed, !.pc = "returned", !.res = a]
                   ELSE IF Len(probed) = Len(find.candidates)
                   THEN [find EXCEPT !.probed = probed, !.pc = "returned", !.res = "null"]
                   ELSE [find EXCEPT !.probed = probed]
        /\ UNCHANGED <<tokenVars, toolVars, authVars, mailboxVars, lookupVars>>

\* one call of findAccountForMessage, with up to MaxCandidates accounts, any
\* of which may have the message
InitFind == InitWith({Absent}, {Absent})

NextFind ==
    \/ \E ids \in CandidateMaps, has \in SUBSET CandidateIds :
          /\ has \subseteq {ids[i] : i \in 1 .. Len(ids)}
          /\ FindAccountForMessage(ids, has)
    \/ FindProbe

SpecFind == InitFind /\ [][NextFind]_vars

(***************************************************************************)
(* The claims.                                                             *)
(***************************************************************************)
Started(o) == ops[o].st \in {"running", "fulfilled", "rejected"}

\* C1: the operations passed to enqueueTokenWrite run one at a time and in the
\* order they were enqueued: an operation that has started finds every
\* operation enqueued before it settled, so no two are in progress at once.
C1_OneAtATimeInOrder ==
    /\ Cardinality({o \in OpIds : ops[o].st = "running"}) <= 1
    /\ \A i, j \in 1 .. Len(enqueued) :
          i < j /\ Started(enqueued[j]) => Settled(enqueued[i])

\* C1 witness: three operations were enqueued; the first has settled, the second
\* is in progress and the third waits for it
C1_Witness ==
    /\ Len(enqueued) >= 3
    /\ Settled(enqueued[1])
    /\ ops[enqueued[2]].st = "running"
    /\ ops[enqueued[3]].st = "queued"

Listeners == {t \in Tasks : task[t].kind = "refresh"}

\* C2: for any interleaving of the refresh events of the handles, once every
\* listener has finished the file holds the events' updates applied one after
\* another in the order their queued writes ran: no update is lost.
C2_NoLostUpdate ==
    (\A t \in Listeners : task[t].pc = "done") => file = Json(applied)

\* C2 witness: the listeners of two accounts have written, the second chained
\* behind the first, and the file holds the access token of each
C2_Witness ==
    \E t, u \in Listeners :
        /\ task[t].acct = "normal" /\ task[u].acct = "work"
        /\ ops[<<u, "op">>].pred = <<t, "op">>
        /\ \A v \in Listeners : task[v].pc = "done" /\ task[v].res = "ok"
        /\ Get(Get(file.obj, "normal"), "access_token") = Str(AccessOf(t))
        /\ Get(Get(file.obj, "work"), "access_token") = Str(AccessOf(u))

\* the members of account a's record that an event without a refresh token
\* leaves alone
Kept(multi, a) ==
    <<Get(Get(multi, a), "refresh_token"), Get(Get(multi, a), "cached_email")>>

\* C3: when the listener of account a handles a token set without a refresh
\* token, the record it writes keeps the refresh token and the cached e-mail
\* that a's record had in the file when the queued write read it.
C3_RefreshKeepsStored ==
    [][\A t \in Tasks :
          (/\ task[t].kind = "refresh"
           /\ task[t].pc = "writing" /\ task'[t].pc = "done"
           /\ ~Truthy(Get(task[t].tok, "refresh_token")))
          => /\ Kept(file'.obj, task[t].acct) = Kept(task[t].snap, task[t].acct)
             /\ Get(Get(file'.obj, task[t].acct), "access_token")
                   = Get(task[t].tok, "access_token")]_vars

\* C3 witness: a listener has written an event without a refresh token and the
\* record holds the new access token beside the stored refresh token and e-mail
C3_Witness ==
    \E t \in Listeners :
        /\ task[t].pc = "done" /\ task[t].res = "ok"
        /\ ~Truthy(Get(task[t].tok, "refresh_token"))
        /\ Get(file.obj, task[t].acct) = Rec(AccessOf(t), "r0", "e0")

\* C4: a save of tokens without a refresh token never erases the refresh token
\* stored for that account, on every save path: stated for saveTokens, whose
\* write must leave the refresh token of the account's record as it read it.
C4_SaveKeepsRefreshToken ==
    [][\A t \in Tasks :
          (/\ task[t].kind = "save"
           /\ task[t].pc = "writing" /\ task'[t].pc = "done"
           /\ ~Truthy(Get(task[t].tok, "refresh_token")))
          => \A a \in AccountIds :
                Truthy(Get(Get(task[t].snap, a), "refresh_token"))
                => Truthy(Get(Get(file'.obj, a), "refresh_token"))]_vars

\* the operation of call t has failed
Failed(t) == ops[<<t, "op">>].st = "rejected"

\* C5: when a queued operation fails, its caller receives the failure; the
\* operations behind it are still run, each as soon as its predecessor has
\* settled (an operation settles only after it was run, and one whose
\* predecessor has settled can start), whether they were enqueued before or
\* after the failure; and the step in which an operation fails leaves the file
\* as the operation left it.
C5_FailureDoesNotStopQueue ==
    /\ [](\A t \in Tasks :
            /\ Failed(t) => task[t].pc = "done" /\ task[t].res \notin {"", "ok"}
            /\ Settled(<<t, "op">>) => task[t].saw # ""
            /\ (/\ ops[<<t, "op">>].st = "queued"
                /\ ops[<<t, "op">>].pred # NoOp
                /\ Settled(ops[<<t, "op">>].pred))
               => ENABLED OpBegin(t, ReadJson(file)))
    /\ [][\A t \in Tasks : Failed(t)' /\ ~Failed(t) => file' = file]_vars

\* C5 witness: the first operation failed; the second, enqueued behind it, and
\* the third, enqueued after the failure had settled, have both written
C5_Witness ==
    /\ Len(enqueued) = 3
    /\ ops[enqueued[1]].st = "rejected"
    /\ ops[enqueued[2]].st = "fulfilled"
    /\ ops[enqueued[3]].st = "fulfilled"
    /\ ops[enqueued[3]].pred = enqueued[2]
    /\ file.st = "json"

\* the calls that read the token file outside the queue
Readers == {t \in Tasks : task[t].kind \in {"loadAll", "loadSaved"}}

\* C6: a reader outside the queue never observes anything but a complete
\* mapping (or no file), even when its read overlaps a queued write in
\* progress: a read made while an operation of the queue is running (and no
\* other writer has the file open) does not find part of a text.
C6_ReadersSeeCompleteFile ==
    [][\A t \in Readers :
          (/\ task[t].pc = "load" /\ task'[t].pc # "load"
           /\ \E o \in OpIds : ops[o].st = "running"
           /\ \A u \in Tasks : task[u].pc # "migrating")
          => task'[t].saw # "partial"]_vars

\* call t takes the step
Acts(t) ==
    \/ task'[t] # task[t]
    \/ \E k \in {"op", "save"} : ops'[<<t, k>>] # ops[<<t, k>>]

\* C7: every write or removal of the token file is made inside an operation of
\* the queue: while a queued operation is in progress, no step other than that
\* operation's changes the file.
C7_OnlyQueueModifiesFile ==
    [][(file' # file /\ \E o \in OpIds : ops[o].st = "running")
          => \E t \in Tasks : Acts(t) /\ \E k \in {"op", "save"} :
                                             ops[<<t, k>>].st = "running"]_vars

\* C9: when a load meets a token file that does not parse, the file is removed
\* and the store behaves as empty: the load does not fail, and the unparseable
\* file is gone once the load has returned.
C9_CorruptFileRemoved ==
    \A t \in Readers :
        task[t].pc = "done" /\ task[t].saw = "corrupt"
        => /\ file.st # "corrupt"
           /\ task[t].kind = "loadAll" => task[t].res = "ok"

\* C10: the first load, by loadSavedTokens or by loadAllAccounts, copies the
\* legacy file (converted when it has the single-account shape) to the token
\* path when there is no token file, and touches neither file otherwise.
C10_FirstLoadMigrates ==
    (/\ task[1].kind \in {"loadAll", "loadSaved"}
     /\ task[1].pc = "done"
     /\ task[2].pc = "idle"
     /\ legacy.st = "json")
    => IF file0.st = "absent"
       THEN file = Json(Migrated(legacy.obj))
       ELSE file0.st = "json" => MappingOf(file) = MappingOf(file0)

\* the load of call t has converted the file
Converted(t) == ops[<<t, "save">>].st = "fulfilled"

\* C8: a load of a token file in the single-account shape returns the mapping
\* with the one entry "normal" holding the old content, and that mapping is
\* what the file holds once the conversion is written; a load of the converted
\* file returns the same mapping, enqueues no write and leaves the file alone.
C8_SingleAccountConversion ==
    /\ [](\A t \in Readers :
            task[t].pc = "done" /\ task[t].saw = "json"
            => /\ Keys(task[t].snap) = {"normal"}
               /\ Get(task[t].snap, "normal") = file0.obj)
    /\ []((/\ \E t \in Readers : Converted(t)
           /\ \A t \in Tasks : ops[<<t, "save">>].st # "running")
          => file = Json(Wrap("normal", file0.obj)))
    /\ [][\A t \in Readers :
            (/\ task[t].pc = "load" /\ task'[t].pc # "load"
             /\ file = Json(Wrap("normal", file0.obj)))
            => /\ task'[t].pc = "done"
               /\ task'[t].snap = Wrap("normal", file0.obj)
               /\ file' = file
               /\ enqueued' = enqueued]_vars

\* C8 witness: one load has converted the file, a second load has read the
\* converted file without writing, and both returned the same mapping
C8_Witness ==
    \E t, u \in Readers :
        /\ task[t].pc = "done" /\ Converted(t)
        /\ task[u].pc = "done" /\ ops[<<u, "save">>].st = "none"
        /\ task[u].saw = "json"
        /\ task[u].snap = task[t].snap
        /\ file = Json(Wrap("normal", R0))

\* the calls of removeAccount
Removals == {t \in Tasks : task[t].kind = "remove"}

\* C11: removeAccount(X) of an account in the store removes the file when X
\* was the only account, and otherwise leaves a file that holds exactly the
\* other accounts with their records as they were; removeAccount of an account
\* that is not in the store (a file that holds a mapping of accounts) fails and
\* leaves the file as it was.
C11_RemoveAccount ==
    [][\A t \in Removals :
          LET x == task[t].acct
              before == task[t].snap
          IN  /\ (task[t].pc # "done" /\ task'[t].pc = "done" /\ task'[t].res = "ok")
                 => /\ x \in Keys(before)
                    /\ IF Keys(before) = {x}
                       THEN file'.st = "absent"
                       ELSE /\ file'.st = "json"
                            /\ Keys(file'.obj) = Keys(before) \ {x}
                            /\ \A a \in Keys(before) \ {x} :
                                  Get(file'.obj, a) = Get(before, a)
              /\ (/\ task[t].pc = "queued" /\ task'[t].pc # "queued"
                  /\ file.st = "json" /\ ~LooksSingleAccount(file.obj)
                  /\ x \notin Keys(file.obj))
                 => /\ task'[t].pc = "done"
                    /\ task'[t].res \notin {"", "ok"}
                    /\ file' = file]_vars

\* C11 witness: of three removals, the first left the other account in the
\* file, the second removed the file, and the third found nothing to remove
C11_Witness ==
    /\ file0 = Json(TwoAccounts)
    /\ \A t \in Tasks : t \in Removals /\ task[t].pc = "done"
    /\ task[1].res = "ok" /\ Keys(task[1].snap) = {"normal", "work"}
    /\ task[2].res = "ok" /\ Keys(task[2].snap) = {task[2].acct}
    /\ task[3].res = "NotFound"
    /\ file.st = "absent"

\* call t is a loadAllAccounts that returns in this step
Reloaded(t) ==
    /\ task[t].kind = "loadAll"
    /\ task[t].pc # "done" /\ task'[t].pc = "done" /\ task'[t].res = "ok"

\* C12: when loadAllAccounts returns, the ids that have a handle are the
\* validly named ids of the store, no more and no fewer.
C12_HandlesAreStoreAccounts ==
    [][\A t \in Tasks :
          Reloaded(t)
          => Keys(accounts') = {id \in Keys(file.obj) : validateAccountId(id)}]_vars

\* C13: when loadAllAccounts returns, every handle, kept or new, holds the
\* record that the store has for its account.
C13_HandlesHoldStoredRecord ==
    [][\A t \in Tasks :
          Reloaded(t)
          => \A id \in Keys(accounts') : Get(accounts', id) = Get(file.obj, id)]_vars

\* the access tokens that the calls of listAccounts obtained for account a
RefreshedFor(a) ==
    {Get(Get(task[t].tok, a), "access_token") :
        t \in {u \in Tasks : task[u].kind = "list" /\ Truthy(Get(task[u].tok, a))}}

\* C14: every successful refresh ends up in the store without the caller doing
\* anything: once listAccounts has refreshed the tokens of an account, the
\* store eventually holds a refreshed access token for that account.
C14_RefreshIsPersisted ==
    \A a \in AccountIds :
        (RefreshedFor(a) # {})
        ~> (Get(Get(file.obj, a), "access_token") \in RefreshedFor(a))

\* C15: a failed write is never swallowed: the pathway whose queued write has
\* failed ends with an error, not as if the write had been made.
C15_WriteFailureSurfaces ==
    \A t \in Tasks : Failed(t) => Outcome(task[t]) = "threw"

\* the identifier that the caller has passed as a string, if any
ArgId == IF tool.argKind = "string" THEN tool.arg[1] ELSE NotGiven

\* C16: an invalid account identifier is rejected before the store or the mail
\* service is reached: a tool call whose identifier is "Work!", "con" or the
\* empty string makes no call to the mail service and ends with an error.
C16_InvalidIdRejected ==
    ArgId \in {"Work!", "con", ""}
    => /\ remote = {}
       /\ tool.pc = "done" => tool.res.err # ""

\* a tool that resolves its account with getClientForAccount has done so, after
\* a reload that succeeded: the account it got, or the error
Resolved ==
    /\ tool.name \in AccountTools
    /\ tool.pc \in {"act", "done"}
    /\ task[tool.task].res = "ok"

ResolvedError == IF tool.target = "" THEN tool.res.err ELSE ""

\* what C17 says of a call without identifier
WithoutIdentifier ==
    LET handles == Keys(accounts)
    IN  (Resolved /\ ArgId = NotGiven)
        => /\ Cardinality(handles) = 1 => {tool.target} = handles
           /\ Cardinality(handles) > 1
              => ResolvedError = "Ambiguous" /\ tool.res.names = handles
           /\ handles = {} => ResolvedError = "NoAccounts"

\* the lowercase form of the identifiers, written out
LowerCaseOf(id) == IF id = "Work" THEN "work" ELSE id

\* C17 as stated: without identifier, the sole account, the ambiguity error
\* with the names, or the no-accounts error; with a (valid) identifier, the
\* handle of that account, compared in lowercase, or the not-found error, and
\* never another account.
C17_AsStated ==
    /\ WithoutIdentifier
    /\ (Resolved /\ ArgId \in {"normal", "work", "Work"})
       => IF LowerCaseOf(ArgId) \in Keys(accounts)
          THEN tool.target = LowerCaseOf(ArgId)
          ELSE ResolvedError = "NotFound"

\* C17, amended: as stated, except that with an identifier and no account at
\* all the error is the no-accounts error, as without identifier; the
\* not-found error is for an account missing among those that exist.
C17_ResolveAccount ==
    /\ WithoutIdentifier
    /\ (Resolved /\ ArgId \in {"normal", "work", "Work"})
       => /\ tool.target \in {"", LowerCaseOf(ArgId)}
          /\ IF LowerCaseOf(ArgId) \in Keys(accounts)
             THEN tool.target = LowerCaseOf(ArgId)
             ELSE IF Keys(accounts) = {} THEN ResolvedError = "NoAccounts"
             ELSE ResolvedError = "NotFound" /\ tool.res.names = Keys(accounts)

\* C17 witness: the identifier "Work" has been resolved to the account work,
\* one of two
C17_Witness ==
    /\ Resolved
    /\ ArgId = "Work"
    /\ Keys(accounts) = {"normal", "work"}
    /\ tool.target = "work"

\* C18: delete_email, modify_email and download_attachment, called without an
\* account while more than one exists, fail with the ambiguity error and make
\* no remote call.  The last clause of the claim: such a call never acts on a
\* message of an account, which the caller has not named.
C18_NoActionOnUnnamedAccount ==
    (tool.name \in MessageTools /\ ArgId = NotGiven /\ Cardinality(Keys(accounts)) > 1)
    => /\ \A c \in remote : c[2] \notin MessageTools
       /\ tool.pc = "done" => tool.res.err = "Ambiguous"

\* the elements of a sequence
Range(seq) == {seq[i] : i \in 1 .. Len(seq)}

\* what the searches of the accounts that answered have returned
Found ==
    UNION {{MailOf(a)[i] : i \in {j \in 1 .. Len(MailOf(a)) :
                                     tool.maxResults = 0 \/ j <= tool.maxResults}} :
              a \in tool.answered}

\* C19: in search_emails over several accounts the failure of some does not
\* end the search: the result has no error, holds the e-mails of the accounts
\* that answered (the newest first, up to maxResults) and a note with each
\* account that failed; the failure of the only selected account is the error
\* of the call.
C19_SearchPartialFailure ==
    /\ [](tool.name = "search_emails" /\ tool.pc = "done"
          /\ Cardinality(tool.selected) > 1
          => LET emails == tool.res.emails
             IN  /\ tool.res.err = ""
                 /\ tool.answered \cup tool.failed = tool.selected
                 /\ Range(tool.res.note) = tool.failed
                 /\ Len(tool.res.note) = Cardinality(tool.failed)
                 /\ Range(emails) \subseteq Found
                 /\ Len(emails) = Cardinality(Range(emails))
                 /\ Len(emails) = IF tool.maxResults # 0
                                     /\ tool.maxResults < Cardinality(Found)
                                  THEN tool.maxResults ELSE Cardinality(Found)
                 /\ \A i, j \in 1 .. Len(emails) :
                       i < j => emails[i].date >= emails[j].date
                 /\ \A e \in Found \ Range(emails), f \in Range(emails) :
                       e.date <= f.date)
    /\ [][(tool.pc = "search" /\ remote' # remote /\ tool'.answered = tool.answered)
          => IF Cardinality(tool.selected) = 1
             THEN tool'.pc = "done" /\ tool'.res.err = "ApiError"
             ELSE tool'.pc = "search"]_vars

\* C19 witness: of two accounts searched, one has failed and is in the note,
\* and the e-mails of the other are the result
C19_Witness ==
    /\ tool.name = "search_emails" /\ tool.pc = "done"
    /\ tool.failed = {"work"} /\ tool.answered = {"normal"}
    /\ tool.res.note = <<"work">>
    /\ Len(tool.res.emails) = 2
    /\ \A i \in 1 .. 2 : tool.res.emails[i].accountId = "normal"

\* C20: in the listing of labels or filters over several accounts, every
\* account whose call failed is in a note of the result.
C20_ListingNotesFailures ==
    (tool.name \in ListingTools /\ tool.pc = "done" /\ Cardinality(tool.selected) > 1)
    => Range(tool.res.note) = tool.failed

Fails(c) == callback[c].page = "" /\ callback'[c].page = "failed"

\* C22: when a request to the callback server ends in failure (an error
\* parameter, no code, a failed exchange, a failed saveTokens), the session's
\* listener is closed, its timer is no longer armed, isRunning() is false, and,
\* if no other request carried a code, the token file is as it was when the
\* session was started.
C22_FailureTearsDown ==
    [][\A c \in Callbacks :
          Fails(c) =>
             LET s == callback'[c].sess
             IN  /\ ~session'[s].listening
                 /\ session'[s].timer # "armed"
                 /\ server' = 0
                 /\ authTimeout' = 0
                 /\ (\A d \in Callbacks \ {c} : callback[d].kind # "code")
                       => file' = session[s].store]_vars

\* the calls of saveTokens made for a request; the mapping that such a call
\* writes is in buf once its operation has computed it
Saves(c) ==
    {t \in Tasks : /\ callback[c].task = t
                   /\ task[t].pc \in {"write", "writing"} \/ task[t].res = "ok"}

\* C23: the mapping that saveTokens writes for a session of account X holds
\* the exchanged tokens under X and, under every other account, the record
\* that the file held; and when the success page is rendered the listener is
\* closed, the timer is not armed and isRunning() is false.
C23_StoredUnderSessionAccount ==
    /\ [](\A c \in Callbacks : \A t \in Saves(c) :
             LET X == session[callback[c].sess].accountId
             IN  /\ Get(task[t].buf, X) = CachedTokens(callback[c].tok, task[t].email)
                 /\ \A a \in Keys(task[t].buf) \cup Keys(task[t].snap) :
                       a # X => Get(task[t].buf, a) = Get(task[t].snap, a))
    /\ [][\A c \in Callbacks :
             (callback[c].page = "" /\ callback'[c].page = "success")
             => LET s == callback[c].sess
                IN  /\ ~session'[s].listening
                    /\ session'[s].timer # "armed"
                    /\ ~isRunning']_vars

\* C24: a session whose listener is bound eventually has its listener closed
\* with isRunning() false, and authenticate() eventually returns.
C24_SessionEnds ==
    /\ \A s \in Sessions :
          session[s].listening ~> (~session[s].listening /\ ~isRunning)
    /\ \A s \in Sessions :
          (session[s].pc = "polling") ~> (session[s].pc = "resolved")

\* C25: the timeout ends only sessions that have received no code: the timer of
\* a session does not fire once a request with a code has reached its server.
C25_TimeoutOnlyWhileListening ==
    \A s \in Sessions :
        session[s].timer = "fired"
        => \A c \in Callbacks : ~(callback[c].sess = s /\ callback[c].kind = "code")

\* the getProfile calls that call l has made for account a
ProfileCalls(l, a) == Cardinality({i \in 1 .. Len(profileCalls) : profileCalls[i] = <<l, a>>})

\* the accounts of a list of mailboxes
AccountsOf(data) == {data[i].accountId : i \in 1 .. Len(data)}

\* C26: a getMailboxes call made while the fetch of an earlier call for the
\* same set of accounts is going on starts no fetch of its own: it is given
\* that fetch's promise and returns the same list, so that the calls together
\* make one getProfile call for each account.
C26_InFlightShared ==
    \A k \in Lookups :
        lookup[k].pc # "idle" =>
            /\ \A l \in lookup[k].during :
                  /\ lookup[k].way = "inflight"
                  /\ lookup[k].promise = l
                  /\ lookup[k].pc = "returned" =>
                        lookup[l].pc = "returned" /\ lookup[k].res = lookup[l].res
            /\ \A a \in MapKeys(lookup[k].ids) :
                  ProfileCalls(k, a) = IF lookup[k].way = "fetch" THEN 1 ELSE 0

C26_Witness ==
    \E k \in Lookups :
        /\ lookup[k].pc = "returned"
        /\ lookup[k].during # {}
        /\ \E l \in lookup[k].during : lookup[l].ids # lookup[k].ids

\* call l of getMailboxes is made
Calls(l) == lookup[l].pc = "idle" /\ lookup'[l].pc # "idle"

\* the fetch of call l completes
Completes(l) == lookup[l].pc = "fetching" /\ lookup'[l].pc = "returned"

\* the cached entries for a set of accounts
EntriesFor(c, set) == {e \in c : AccountsOf(e.data) = set}

\* C27: a getMailboxes call made while no fetch for its set of accounts is in
\* flight returns the cached list for that set, whatever the order of the ids,
\* and calls no getProfile, if the entry was stored less than CACHE_TTL ago;
\* otherwise it starts a fetch, with one getProfile call for each account, and
\* when the fetch completes, the list it returns is the one entry for the set,
\* stored at that time.
C27_CacheWithinTTL ==
    [][\A l \in Lookups :
        /\ Calls(l) =>
            LET set == MapKeys(lookup'[l].ids)
                busy == \E k \in Lookups :
                            lookup[k].pc = "fetching" /\ MapKeys(lookup[k].ids) = set
                young == {e \in EntriesFor(cache, set) : clock - e.timestamp < CACHE_TTL}
            IN  ~busy =>
                    IF young # {}
                    THEN /\ lookup'[l].pc = "returned"
                         /\ lookup'[l].res \in {e.data : e \in young}
                         /\ profileCalls' = profileCalls
                         /\ cache' = cache
                    ELSE /\ lookup'[l].pc = "fetching"
                         /\ Len(profileCalls') = Len(profileCalls) + Cardinality(set)
                         /\ \A a \in set : ProfileCalls(l, a)' = 1
        /\ Completes(l) =>
            EntriesFor(cache', MapKeys(lookup[l].ids)) =
                {[key |-> lookup[l].cacheKey, data |-> lookup'[l].res, timestamp |-> clock]}
      ]_vars

C27_Witness ==
    \E l, k \in Lookups :
        /\ lookup[l].pc = "returned" /\ lookup[l].way = "fetch"
        /\ lookup[k].pc = "returned" /\ lookup[k].way = "cache"
        /\ lookup[k].ids # lookup[l].ids
        /\ MapKeys(lookup[k].ids) = MapKeys(lookup[l].ids)
        /\ clock > 0

\* reloadAccounts() of call t returns
Reloads(t) == task[t].kind = "loadAll" /\ task[t].pc # "done" /\ task'[t].pc = "done"

\* C28: when reloadAccounts() returns, the first time or a later time, the
\* cache of the registry that the handlers hold has no entry.
C28_EveryReloadClears ==
    [][\A t \in Tasks : Reloads(t) => cache' = {}]_vars

\* C29: with two or more accounts, findAccountForMessage probes the accounts
\* in the order of the map, one after another, and none after an account that
\* has the message; it returns the account probed last if that one has the
\* message, and null only when every account has been probed and none has it.
C29_FirstInMapOrder ==
    Len(find.candidates) >= 2 =>
        /\ Len(find.probed) <= Len(find.candidates)
        /\ \A i \in 1 .. Len(find.probed) : find.probed[i] = find.candidates[i]
        /\ \A i \in 1 .. Len(find.probed) - 1 : find.probed[i] \notin find.has
        /\ find.pc = "returned" =>
              IF find.res = "null"
              THEN find.probed = find.candidates
                   /\ \A i \in 1 .. Len(find.candidates) : find.candidates[i] \notin find.has
              ELSE find.probed # <<>>
                   /\ find.res = find.probed[Len(find.probed)]
                   /\ find.res \in find.has

C29_Witness ==
    /\ find.pc = "returned"
    /\ Len(find.candidates) >= 3
    /\ find.res = find.candidates[2]
    /\ find.candidates[3] \in find.has

\* C30: an account that findAccountForMessage returns has the message, and
\* null is returned when no account of a map of one or more accounts has it.
C30_ReturnedAccountHasMessage ==
    (find.pc = "returned" /\ find.candidates # <<>>) =>
        IF find.has = {} THEN find.res = "null" ELSE find.res \in find.has

\* the write of listAccounts in call t starts, and ends
ListWrites(t) == task[t].kind = "list" /\ task[t].pc = "write" /\ task'[t].pc = "writing"
ListWritten(t) == task[t].kind = "list" /\ task[t].pc = "writing" /\ task'[t].pc = "done"

\* C31: when the write of listAccounts runs, what it writes has the accounts
\* that the file holds at that moment, each with the record the file holds but
\* for cached_email; that is what the file holds when the write has ended.
C31_ListWritesOnlyEmail ==
    [][\A t \in Tasks :
        /\ ListWrites(t) =>
              /\ file.st \in {"json", "absent"}
              /\ Keys(task[t].buf) = Keys(file.obj)
              /\ \A a \in Keys(file.obj) :
                    Delete(Get(task[t].buf, a), "cached_email")
                        = Delete(Get(file.obj, a), "cached_email")
        /\ ListWritten(t) => file' = Json(task[t].buf)
      ]_vars

\* listAccounts has written the address it found for one account after a
\* removal, enqueued before its write, has removed another account that it
\* had read (and refreshed)
C31_Witness ==
    \E t, u \in Tasks :
        /\ task[t].kind = "list" /\ task[t].pc = "done" /\ task[t].res = "ok"
        /\ task[u].kind = "remove" /\ task[u].pc = "done" /\ task[u].res = "ok"
        /\ enqueued = << <<u, "op">>, <<t, "op">> >>
        /\ task[u].acct \in Keys(task[t].tok)
        /\ task[u].acct \notin Keys(file.obj)
        /\ \E b \in Keys(file.obj) :
              Get(Get(file.obj, b), "cached_email") = Str(FetchedEmail)

\* C32: every operation that enqueueTokenWrite has chained is eventually
\* settled, whatever shape the file has.
C32_EveryOperationSettles ==
    \A o \in OpIds : (ops[o].st = "queued") ~> Settled(o)

\* the call of startForMcpTool of session s returns a failure of
\* loadCredentials or of listen
FailsToStart(s) ==
    /\ session[s].pc = "credentials"
    /\ session'[s].pc = "returned"
    /\ session'[s].res # "ok"

\* no other call of startForMcpTool is in progress, and no other session has a
\* listener or a timer
Alone(s) ==
    \A u \in Sessions \ {s} :
        /\ session[u].pc # "credentials"
        /\ ~session[u].listening
        /\ session[u].timer # "armed"

\* C33: when a call of startForMcpTool fails while no other session exists,
\* the auth server holds no server and no timer afterwards, and no timer is
\* armed, so that isRunning() is false and the next start is not refused.
C33_FailedStartLeavesIdle ==
    [][\A s \in Sessions :
        (FailsToStart(s) /\ Alone(s)) =>
            /\ ~isRunning'
            /\ authTimeout' = 0
            /\ session'[s].timer # "armed"
      ]_vars

\* C34: at most one listener is bound and at most one timer is armed, and
\* they are the ones that the auth server holds in server and authTimeout.
C34_OneTrackedSession ==
    /\ Cardinality({s \in Sessions : session[s].listening}) <= 1
    /\ Cardinality({s \in Sessions : session[s].timer = "armed"}) <= 1
    /\ \A s \in Sessions : session[s].listening => server = s
    /\ \A s \in Sessions : session[s].timer = "armed" => authTimeout = s

\* C35: a 'tokens' event of a handle whose account removeAccount has taken out
\* of the map does not create a record: its listener writes a record for the
\* account only if the file it read holds one (from a new authorization).
C35_RemovedStaysRemoved ==
    \A t \in Tasks :
        (task[t].kind = "refresh" /\ task[t].orphan /\ task[t].pc \in {"write", "writing"})
            => task[t].acct \in Keys(task[t].snap)

\* C36: whatever the store operations and their interleaving, the token file
\* is absent or holds at least one account; it never holds an empty object.
C36_NeverEmptyObject ==
    file.st = "json" => Keys(file.obj) # {}

\* C37: with clearCache between the calls, at most one fetch per cache key is
\* going on at any time, and a fetch that was started before a clearCache
\* stores nothing in the cache when it completes.
C37_ClearIsolatesFetches ==
    [][/\ \A k, l \in Lookups :
            (k # l /\ lookup'[k].pc = "fetching" /\ lookup'[l].pc = "fetching")
                => lookup'[k].cacheKey # lookup'[l].cacheKey
       /\ \A l \in Lookups :
            (lookup[l].pc = "fetching" /\ lookup[l].cleared /\ lookup'[l].pc = "returned")
                => cache' = cache]_vars

\* a mapping of valid account identifiers to records
IsMultiAccount(obj) ==
    \A k \in Keys(obj) : validateAccountId(k) /\ IsObject(Get(obj, k))

\* C38: a load that reads a mapping of valid account identifiers to records
\* never takes it for a single-account file: it starts no conversion.
C38_MappingNeverConverted ==
    [][\A t \in Tasks :
          (task[t].pc # "convert" /\ task'[t].pc = "convert")
              => ~(file.st = "json" /\ IsMultiAccount(file.obj))]_vars

\* the saves whose tokens the TokenManager's own client holds
BaseSaves ==
    {u \in Tasks : /\ task[u].kind = "save" /\ task[u].pc = "done"
                   /\ task[u].res = "ok" /\ task[u].tok = oauth2Client}

\* the TokenManager's own client emits 'tokens' and its listener enqueues a
\* write for call t
BaseRefreshes(t) ==
    /\ task[t].pc = "idle"
    /\ task'[t].kind = "refresh"
    /\ task'[t].acct \notin Keys(accounts) \cup HeldHandles

\* C39: when the TokenManager's own client refreshes the tokens it was given
\* by a save, its listener writes the new tokens to the record of the account
\* that save was for.
C39_RefreshGoesToOwnRecord ==
    [][\A t \in Tasks : BaseRefreshes(t)
          => \A u \in BaseSaves : task'[t].acct = task[u].acct]_vars

\* C40: every key of the token file is a valid account identifier, also after
\* an authorization started from the command line.
C40_KeysAreValidIds ==
    file.st = "json" => \A k \in Keys(file.obj) : validateAccountId(k)
====
